---- MODULE Spec2Model ----
(***************************************************************************)
(* A model of the formatting and sorting core of web-align-tool:           *)
(* the per-language formatter pipelines (JavaFormatter,                    *)
(* JavaScriptFormatter, KotlinFormatter, JsonFormatter, SqlFormatter)      *)
(* behind                                                                  *)
(* FormattingService.formatCode, the generic line sorter (AdvancedSorter)  *)
(* and the region sorters (LanguageSpecificSorter).                        *)
(*                                                                         *)
(* Text is a sequence of one-character strings.  Regular expressions of    *)
(* the source are written as data (Chr, In, Cat, Alt, Rep, Grp, ...) and   *)
(* run by a backtracking matcher with the priorities of the JavaScript     *)
(* engine (leftmost match, greedy before lazy, first alternative first).   *)
(***************************************************************************)
EXTENDS Integers, Sequences, FiniteSets, TLC

VARIABLES
  pc,        \* the entry point about to be called, the stage about to run, or "done"
  lang,      \* the language selector (the formatter or sorter called)
  input,     \* the text given to the call
  conv,      \* the convention / options given to the call
  cur,       \* the value the stages hand on (formattedCode; parsedJson)
  warnings,  \* the warnings array of the call
  console,   \* what the call has written with console.warn
  result,    \* the value the call returned
  stages,    \* the stages this call has run, in order
  pass,      \* "first"; "again" when the input is the previous output;
             \* "reindented" when it is the first input with other leading whitespace
  prev       \* the first call's input and result, once there is a second call

vars == <<pc, lang, input, conv, cur, warnings, console, result, stages, pass, prev>>

----------------------------------------------------------------------------
(* Characters *)

NL == "\n"
TAB == "\t"
SP == " "
DQ == "\""

\* String.prototype.trim and \s: the whitespace of the model's alphabet.
WhiteSpace == {SP, TAB, NL}

Digits == {"0", "1", "2", "3", "4", "5", "6", "7", "8", "9"}

LowerCase == {"a", "b", "c", "d", "e", "f", "g", "h", "i", "j", "k", "l", "m",
              "n", "o", "p", "q", "r", "s", "t", "u", "v", "w", "x", "y", "z"}

UpperCase == {"A", "B", "C", "D", "E", "F", "G", "H", "I", "J", "K", "L", "M",
              "N", "O", "P", "Q", "R", "S", "T", "U", "V", "W", "X", "Y", "Z"}

\* \w
WordChars == Digits \cup LowerCase \cup UpperCase \cup {"_"}

\* The characters of the model in ascending UTF-16 code unit order.
CodeOrder == <<TAB, NL, SP, "!", DQ, "#", "%", "&", "'", "(", ")", "*", "+", ",",
               "-", ".", "/", "0", "1", "2", "3", "4", "5", "6", "7", "8", "9",
               ":", ";", "<", "=", ">", "?", "@",
               "A", "B", "C", "D", "E", "F", "G", "H", "I", "J", "K", "L", "M",
               "N", "O", "P", "Q", "R", "S", "T", "U", "V", "W", "X", "Y", "Z",
               "[", "\\", "]", "^", "_",
               "a", "b", "c", "d", "e", "f", "g", "h", "i", "j", "k", "l", "m",
               "n", "o", "p", "q", "r", "s", "t", "u", "v", "w", "x", "y", "z",
               "{", "|", "}">>

CharCode(c) == CHOOSE k \in 1..Len(CodeOrder) : CodeOrder[k] = c

LowerLetters ==
  <<"a", "b", "c", "d", "e", "f", "g", "h", "i", "j", "k", "l", "m",
    "n", "o", "p", "q", "r", "s", "t", "u", "v", "w", "x", "y", "z">>
UpperLetters ==
  <<"A", "B", "C", "D", "E", "F", "G", "H", "I", "J", "K", "L", "M",
    "N", "O", "P", "Q", "R", "S", "T", "U", "V", "W", "X", "Y", "Z">>

UpperOf(c) ==
  IF c \in LowerCase
  THEN UpperLetters[CHOOSE j \in 1..Len(LowerLetters) : LowerLetters[j] = c] ELSE c

LowerOf(c) ==
  IF c \in UpperCase
  THEN LowerLetters[CHOOSE j \in 1..Len(UpperLetters) : UpperLetters[j] = c] ELSE c

----------------------------------------------------------------------------
(* Strings *)

RECURSIVE Flatten(_)
Flatten(ss) == IF ss = <<>> THEN <<>> ELSE Head(ss) \o Flatten(Tail(ss))

\* String.prototype.repeat for count >= 0 (a negative count raises RangeError,
\* which the callers model before they get here).
RECURSIVE Repeat(_, _)
Repeat(s, n) == IF n <= 0 THEN <<>> ELSE s \o Repeat(s, n - 1)

Drop(s, n) == SubSeq(s, n + 1, Len(s))

StartsWith(s, p) == Len(p) <= Len(s) /\ SubSeq(s, 1, Len(p)) = p

EndsWith(s, p) == Len(p) <= Len(s) /\ SubSeq(s, Len(s) - Len(p) + 1, Len(s)) = p

Includes(s, p) == \E i \in 1..(Len(s) - Len(p) + 1) : SubSeq(s, i, i + Len(p) - 1) = p

RECURSIVE TrimStart(_)
TrimStart(s) == IF s # <<>> /\ Head(s) \in WhiteSpace THEN TrimStart(Tail(s)) ELSE s

RECURSIVE TrimEnd(_)
TrimEnd(s) == IF s # <<>> /\ s[Len(s)] \in WhiteSpace
              THEN TrimEnd(SubSeq(s, 1, Len(s) - 1)) ELSE s

Trim(s) == TrimEnd(TrimStart(s))

\* String.prototype.toUpperCase
ToUpperCase(s) == [k \in 1..Len(s) |-> UpperOf(s[k])]

\* String.prototype.toLowerCase
ToLowerCase(s) == [k \in 1..Len(s) |-> LowerOf(s[k])]

RECURSIVE SplitOnFrom(_, _, _, _)
SplitOnFrom(s, c, i, acc) ==
  IF i > Len(s) THEN <<acc>>
  ELSE IF s[i] = c THEN <<acc>> \o SplitOnFrom(s, c, i + 1, <<>>)
  ELSE SplitOnFrom(s, c, i + 1, Append(acc, s[i]))

\* String.prototype.split(c) for a one-character separator
SplitOn(s, c) == SplitOnFrom(s, c, 1, <<>>)

\* Array.prototype.join(sep)
RECURSIVE JoinWith(_, _)
JoinWith(ls, sep) ==
  IF ls = <<>> THEN <<>>
  ELSE IF Len(ls) = 1 THEN ls[1]
  ELSE ls[1] \o sep \o JoinWith(Tail(ls), sep)

\* String.prototype.split('\n'): always at least one piece.
RECURSIVE SplitFrom(_, _, _)
SplitFrom(s, i, acc) ==
  IF i > Len(s) THEN <<acc>>
  ELSE IF s[i] = NL THEN <<acc>> \o SplitFrom(s, i + 1, <<>>)
  ELSE SplitFrom(s, i + 1, Append(acc, s[i]))

SplitLines(s) == SplitFrom(s, 1, <<>>)

\* Array.prototype.join('\n')
RECURSIVE JoinLines(_)
JoinLines(ls) ==
  IF ls = <<>> THEN <<>>
  ELSE IF Len(ls) = 1 THEN ls[1]
  ELSE ls[1] \o <<NL>> \o JoinLines(Tail(ls))

\* a < b in the order of the default Array.prototype.sort (UTF-16 code units).
RECURSIVE StrLess(_, _)
StrLess(a, b) ==
  IF b = <<>> THEN FALSE
  ELSE IF a = <<>> THEN TRUE
  ELSE IF Head(a) = Head(b) THEN StrLess(Tail(a), Tail(b))
  ELSE CharCode(Head(a)) < CharCode(Head(b))

\* Array.prototype.sort is stable: an insertion sort by a strict order.
RECURSIVE InsertSorted(_, _)
InsertSorted(sorted, x) ==
  IF sorted = <<>> THEN <<x>>
  ELSE IF StrLess(x, Head(sorted)) THEN <<x>> \o sorted
  ELSE <<Head(sorted)>> \o InsertSorted(Tail(sorted), x)

RECURSIVE SortStrings(_)
SortStrings(ls) ==
  IF ls = <<>> THEN <<>>
  ELSE InsertSorted(SortStrings(SubSeq(ls, 1, Len(ls) - 1)), ls[Len(ls)])

RECURSIVE FilterIdx(_, _)
\* the subsequence of ls at the (ascending) positions of keep
FilterIdx(ls, keep) ==
  IF ls = <<>> THEN <<>>
  ELSE (IF Len(ls) \in keep THEN FilterIdx(SubSeq(ls, 1, Len(ls) - 1), keep) \o <<ls[Len(ls)]>>
        ELSE FilterIdx(SubSeq(ls, 1, Len(ls) - 1), keep))

----------------------------------------------------------------------------
(* Regular expressions *)

Chr(c) == [t |-> "set", s |-> {c}, neg |-> FALSE]
In(S) == [t |-> "set", s |-> S, neg |-> FALSE]
NotIn(S) == [t |-> "set", s |-> S, neg |-> TRUE]
Cat(a) == [t |-> "seq", a |-> a]
Alt(a) == [t |-> "alt", a |-> a]
\* r{min,max}; max < 0 is no upper limit
Rep(r, min, max) == [t |-> "rep", r |-> r, min |-> min, max |-> max, greedy |-> TRUE]
Lazy(r, min, max) == [t |-> "rep", r |-> r, min |-> min, max |-> max, greedy |-> FALSE]
Star(r) == Rep(r, 0, -1)
Plus(r) == Rep(r, 1, -1)
Opt(r) == Rep(r, 0, 1)
Grp(n, r) == [t |-> "grp", n |-> n, r |-> r]
\* ^ and $ without and with the m flag, \b
Bol == [t |-> "bol"]
Eol == [t |-> "eol"]
BolM == [t |-> "bolm"]
EolM == [t |-> "eolm"]
WordB == [t |-> "wb"]
Lit(str) == Cat([k \in 1..Len(str) |-> Chr(str[k])])
\* a literal under the i flag
LitI(str) == Cat([k \in 1..Len(str) |-> In({LowerOf(str[k]), UpperOf(str[k])})])
\* (?=r)
Look(r) == [t |-> "look", r |-> r]
\* . under the s flag
AnyChar == NotIn({})
ReS == In(WhiteSpace)
ReNotS == NotIn(WhiteSpace)
ReW == In(WordChars)
ReD == In(Digits)

NoCaps == <<<<0, 0>>, <<0, 0>>, <<0, 0>>, <<0, 0>>>>

\* The end of the run of characters of the class cls that starts at position i.
RunEnd(cls, s, i) ==
  LET stops == {k \in i..Len(s) : (s[k] \in cls.s) = cls.neg}
  IN IF stops = {} THEN Len(s) + 1 ELSE CHOOSE k \in stops : \A j \in stops : k <= j

\* The ways a repetition of a character class matches from position i: every
\* length from min up to the run (or max), the longest first when greedy.
SetRep(r, s, i, g) ==
  LET run == RunEnd(r.r, s, i) - i
      most == IF r.max < 0 \/ run < r.max THEN run ELSE r.max
  IN IF most < r.min THEN <<>>
     ELSE [k \in 1..(most - r.min + 1) |->
             [e |-> i + (IF r.greedy THEN most - k + 1 ELSE r.min + k - 1), g |-> g]]

RECURSIVE ReM(_, _, _, _), ReSeq(_, _, _, _, _), ReBind(_, _, _, _, _),
          ReAlt(_, _, _, _, _), ReRep(_, _, _, _, _), ReRepBind(_, _, _, _, _, _)

\* Every way r matches s from position i, as [e: the position after the match,
\* g: the captures], in the order a backtracking engine tries them.
ReM(r, s, i, g) ==
  LET here == <<[e |-> i, g |-> g]>>
      isW(k) == k >= 1 /\ k <= Len(s) /\ s[k] \in WordChars
  IN CASE r.t = "set" ->
            IF i <= Len(s) /\ ((s[i] \in r.s) # r.neg)
            THEN <<[e |-> i + 1, g |-> g]>> ELSE <<>>
       [] r.t = "seq" -> ReSeq(r.a, 1, s, i, g)
       [] r.t = "alt" -> ReAlt(r.a, 1, s, i, g)
       [] r.t = "rep" -> IF r.r.t = "set" THEN SetRep(r, s, i, g) ELSE ReRep(r, s, i, g, 0)
       [] r.t = "grp" ->
            LET ms == ReM(r.r, s, i, g)
            IN [k \in 1..Len(ms) |->
                  [e |-> ms[k].e, g |-> [ms[k].g EXCEPT ![r.n] = <<i, ms[k].e>>]]]
       [] r.t = "bol" -> IF i = 1 THEN here ELSE <<>>
       [] r.t = "eol" -> IF i = Len(s) + 1 THEN here ELSE <<>>
       [] r.t = "bolm" -> IF i = 1 \/ s[i - 1] = NL THEN here ELSE <<>>
       [] r.t = "eolm" -> IF i = Len(s) + 1 \/ s[i] = NL THEN here ELSE <<>>
       [] r.t = "wb" -> IF isW(i - 1) # isW(i) THEN here ELSE <<>>
       [] r.t = "look" -> IF ReM(r.r, s, i, g) # <<>> THEN here ELSE <<>>

ReSeq(a, k, s, i, g) ==
  IF k > Len(a) THEN <<[e |-> i, g |-> g]>>
  ELSE ReBind(ReM(a[k], s, i, g), 1, a, k + 1, s)

ReBind(ms, j, a, k, s) ==
  IF j > Len(ms) THEN <<>>
  ELSE ReSeq(a, k, s, ms[j].e, ms[j].g) \o ReBind(ms, j + 1, a, k, s)

ReAlt(a, k, s, i, g) ==
  IF k > Len(a) THEN <<>>
  ELSE ReM(a[k], s, i, g) \o ReAlt(a, k + 1, s, i, g)

ReRep(r, s, i, g, n) ==
  LET more == IF r.max < 0 \/ n < r.max
              THEN ReRepBind(ReM(r.r, s, i, g), 1, r, s, i, n) ELSE <<>>
      stop == IF n >= r.min THEN <<[e |-> i, g |-> g]>> ELSE <<>>
  IN IF r.greedy THEN more \o stop ELSE stop \o more

ReRepBind(ms, j, r, s, i, n) ==
  IF j > Len(ms) THEN <<>>
  ELSE (IF ms[j].e > i THEN ReRep(r, s, ms[j].e, ms[j].g, n + 1) ELSE <<>>)
       \o ReRepBind(ms, j + 1, r, s, i, n)

\* RegExp.prototype.exec from position i: the leftmost match, the engine's first
\* (ms: the ways the pattern matches at i).
RECURSIVE ReExec(_, _, _), ReExecAt(_, _, _, _)
ReExec(r, s, i) ==
  IF i > Len(s) + 1 THEN [found |-> FALSE, b |-> 0, e |-> 0, g |-> NoCaps]
  ELSE ReExecAt(r, s, i, ReM(r, s, i, NoCaps))

ReExecAt(r, s, i, ms) ==
  IF ms # <<>> THEN [found |-> TRUE, b |-> i, e |-> ms[1].e, g |-> ms[1].g]
  ELSE ReExec(r, s, i + 1)

\* RegExp.prototype.test
ReTest(r, s) == ReExec(r, s, 1).found

\* The text of capture k of match m ("" for a group that did not take part).
Capture(s, m, k) == IF m.g[k][1] = 0 THEN <<>> ELSE SubSeq(s, m.g[k][1], m.g[k][2] - 1)

\* A replacement pattern: characters, and "$1", "$2", "$3" for the captures.
RECURSIVE Expand(_, _, _)
Expand(tpl, s, m) ==
  IF tpl = <<>> THEN <<>>
  ELSE (CASE Head(tpl) = "$1" -> Capture(s, m, 1)
          [] Head(tpl) = "$2" -> Capture(s, m, 2)
          [] Head(tpl) = "$3" -> Capture(s, m, 3)
          [] OTHER -> <<Head(tpl)>>) \o Expand(Tail(tpl), s, m)

\* String.prototype.replace with a g-flag pattern: the non-overlapping matches
\* left to right; after an empty match the search moves on by one character.
RECURSIVE ReplaceFrom(_, _, _, _), ReplaceMatch(_, _, _, _, _)
ReplaceFrom(r, s, tpl, i) == ReplaceMatch(r, s, tpl, i, ReExec(r, s, i))

\* m: the next match from position i
ReplaceMatch(r, s, tpl, i, m) ==
  IF ~m.found THEN SubSeq(s, i, Len(s))
  ELSE SubSeq(s, i, m.b - 1) \o Expand(tpl, s, m) \o
       (IF m.e > m.b THEN ReplaceFrom(r, s, tpl, m.e)
        ELSE IF m.b <= Len(s) THEN <<s[m.b]>> \o ReplaceFrom(r, s, tpl, m.b + 1)
        ELSE <<>>)

ReplaceAll(r, s, tpl) == ReplaceFrom(r, s, tpl, 1)

\* String.prototype.replace with a pattern without the g flag: the first match.
ReplaceFirstMatch(s, tpl, m) ==
  IF ~m.found THEN s
  ELSE SubSeq(s, 1, m.b - 1) \o Expand(tpl, s, m) \o SubSeq(s, m.e, Len(s))

ReplaceFirst(r, s, tpl) == ReplaceFirstMatch(s, tpl, ReExec(r, s, 1))

\* (s.match(/c/g) || []).length for a single character c
CountChar(s, c) == Cardinality({k \in 1..Len(s) : s[k] = c})

----------------------------------------------------------------------------
(* Words of the source *)

W_import == <<"i", "m", "p", "o", "r", "t">>
W_export == <<"e", "x", "p", "o", "r", "t">>
W_static == <<"s", "t", "a", "t", "i", "c">>
W_package == <<"p", "a", "c", "k", "a", "g", "e">>
W_class == <<"c", "l", "a", "s", "s">>
W_interface == <<"i", "n", "t", "e", "r", "f", "a", "c", "e">>
W_enum == <<"e", "n", "u", "m">>
W_public == <<"p", "u", "b", "l", "i", "c">>
W_private == <<"p", "r", "i", "v", "a", "t", "e">>
W_protected == <<"p", "r", "o", "t", "e", "c", "t", "e", "d">>
W_final == <<"f", "i", "n", "a", "l">>
W_if == <<"i", "f">>
W_for == <<"f", "o", "r">>
W_while == <<"w", "h", "i", "l", "e">>
W_switch == <<"s", "w", "i", "t", "c", "h">>
W_catch == <<"c", "a", "t", "c", "h">>
W_java == <<"j", "a", "v", "a">>
W_javax == <<"j", "a", "v", "a", "x">>
W_org == <<"o", "r", "g">>
W_com == <<"c", "o", "m">>

----------------------------------------------------------------------------
(* FormattingResult and the helpers every formatter repeats *)

\* countChangedLines: position-wise, a missing line counting as ''.
CountChangedLines(originalLines, formattedLines) ==
  LET maxLength == IF Len(originalLines) > Len(formattedLines)
                   THEN Len(originalLines) ELSE Len(formattedLines)
      at(ls, i) == IF i <= Len(ls) THEN ls[i] ELSE <<>>
  IN Cardinality({i \in 1..maxLength : at(originalLines, i) # at(formattedLines, i)})

\* The value format returns after its last stage.
Formatted(code, formattedCode, ws) ==
  [formattedCode |-> formattedCode,
   changedLines |-> CountChangedLines(SplitLines(code), SplitLines(formattedCode)),
   warnings |-> ws,
   errors |-> <<>>]

\* A catch block that counts every line of the input as changed.
CaughtCounting(code, ws, message) ==
  [formattedCode |-> code, changedLines |-> Len(SplitLines(code)), warnings |-> ws,
   errors |-> <<message>>]

\* The value the catch block of format returns.
Caught(code, ws, message) ==
  [formattedCode |-> code, changedLines |-> 0, warnings |-> ws,
   errors |-> <<message>>]

\* ' '.repeat(indentSize) raises RangeError for a negative count.
RepeatRaises(n) == n < 0

\* indentString of applyIndentation
IndentString(c) ==
  IF c.indentationType = "tab" THEN <<TAB>> ELSE Repeat(<<SP>>, c.indentSize)

\* normalizeWhitespace of the Java, JavaScript and Kotlin formatters
NormalizeWhitespace(code, c) ==
  LET a == IF c.indentationType = "space"
           THEN ReplaceAll(Chr(TAB), code, Repeat(<<SP>>, c.indentSize)) ELSE code
      b == IF c.trimTrailingWhitespace
           THEN ReplaceAll(Cat(<<Plus(In({SP, TAB})), EolM>>), a, <<>>) ELSE a
  IN ReplaceAll(Cat(<<Chr(NL), Star(ReS), Chr(NL), Star(ReS), Chr(NL)>>), b, <<NL, NL>>)

NormalizeRaises(c) == c.indentationType = "space" /\ RepeatRaises(c.indentSize)

\* applyIndentation: closers decrement (clamped at 0) before the line is
\* emitted, openers increment after it.
RECURSIVE IndentFrom(_, _, _, _, _, _)
IndentFrom(lines, i, indentLevel, indentString, closers, openers) ==
  IF i > Len(lines) THEN <<>>
  ELSE LET trimmedLine == Trim(lines[i])
       IN IF trimmedLine = <<>>
          THEN <<<<>>>> \o IndentFrom(lines, i + 1, indentLevel, indentString, closers, openers)
          ELSE LET lvl == IF Head(trimmedLine) \in closers
                          THEN (IF indentLevel - 1 > 0 THEN indentLevel - 1 ELSE 0)
                          ELSE indentLevel
                   next == IF trimmedLine[Len(trimmedLine)] \in openers THEN lvl + 1 ELSE lvl
               IN <<Repeat(indentString, lvl) \o trimmedLine>>
                  \o IndentFrom(lines, i + 1, next, indentString, closers, openers)

ApplyIndentation(code, c, closers, openers) ==
  JoinLines(IndentFrom(SplitLines(code), 1, 0, IndentString(c), closers, openers))

IndentRaises(c) == c.indentationType # "tab" /\ RepeatRaises(c.indentSize)

\* applyBraceStyle
ApplyBraceStyle(code, c) ==
  CASE c.braceStyle = "kr" ->
         ReplaceAll(Cat(<<Chr(NL), Star(ReS), Chr("{")>>), code, <<SP, "{">>)
    [] c.braceStyle = "allman" ->
         ReplaceAll(Cat(<<Star(ReS), Chr("{"), Star(ReS)>>), code, <<NL, "{">>)
    [] OTHER -> code

\* finalCleanup: the final newline
\* A final cleanup that appends a newline whatever the text and the convention
FinalNewlineAppended(code, c) == code \o <<NL>>

FinalNewline(code, c) ==
  IF c.insertFinalNewline
  THEN (IF EndsWith(code, <<NL>>) THEN code ELSE code \o <<NL>>)
  ELSE ReplaceFirst(Cat(<<Plus(Chr(NL)), Eol>>), code, <<>>)

\* addBlankLines(result, count)
RECURSIVE AddBlankLines(_, _)
AddBlankLines(res, count) ==
  IF count <= 0 THEN res
  ELSE AddBlankLines(IF res = <<>> \/ res[Len(res)] # <<>> THEN Append(res, <<>>) ELSE res,
                     count - 1)

----------------------------------------------------------------------------
(* JavaFormatter *)

\* The loop of organizeImports: the lines sorted into import static, import
\* and the rest; blank lines are dropped while still in the import section.
RECURSIVE JavaSplitImports(_, _, _)
JavaSplitImports(lines, i, st) ==
  IF i > Len(lines) THEN st
  ELSE LET line == lines[i]
           trimmedLine == Trim(line)
       IN JavaSplitImports(lines, i + 1,
            IF StartsWith(trimmedLine, W_import \o <<SP>> \o W_static \o <<SP>>)
            THEN [st EXCEPT !.staticImportLines = Append(@, trimmedLine)]
            ELSE IF StartsWith(trimmedLine, W_import \o <<SP>>)
            THEN [st EXCEPT !.importLines = Append(@, trimmedLine)]
            ELSE IF StartsWith(trimmedLine, W_package \o <<SP>>)
                    \/ StartsWith(trimmedLine, <<"/", "/">>)
                    \/ StartsWith(trimmedLine, <<"/", "*">>)
            THEN [st EXCEPT !.nonImportLines = Append(@, line)]
            ELSE IF trimmedLine = <<>>
            THEN (IF ~st.inImportSection
                  THEN [st EXCEPT !.nonImportLines = Append(@, line)] ELSE st)
            ELSE [st EXCEPT !.inImportSection = FALSE,
                            !.nonImportLines = Append(@, line)])

\* findIndex(line => line.trim().startsWith('package ')), 0 when there is none
\* (the source's -1; positions are 1-based here).
PackageIndex(nonImportLines) ==
  LET hits == {k \in 1..Len(nonImportLines) :
                 StartsWith(Trim(nonImportLines[k]), W_package \o <<SP>>)}
  IN IF hits = {} THEN 0 ELSE CHOOSE k \in hits : \A j \in hits : k <= j

SelectLines(ls, Keep(_)) == FilterIdx(ls, {k \in 1..Len(ls) : Keep(ls[k])})

\* The import groups of JavaFormatter.organizeImports, the empty ones removed.
JavaImportGroups(importLines) ==
  LET has(imp, w) == Includes(imp, w \o <<".">>)
      javaImports == SelectLines(importLines, LAMBDA imp : has(imp, W_java))
      javaxImports == SelectLines(importLines, LAMBDA imp : has(imp, W_javax))
      orgImports == SelectLines(importLines, LAMBDA imp : has(imp, W_org))
      comImports == SelectLines(importLines, LAMBDA imp : has(imp, W_com))
      otherImports == SelectLines(importLines, LAMBDA imp :
                        ~has(imp, W_java) /\ ~has(imp, W_javax)
                        /\ ~has(imp, W_org) /\ ~has(imp, W_com))
  IN SelectLines(<<javaImports, javaxImports, orgImports, comImports, otherImports>>,
                 LAMBDA group : Len(group) > 0)

\* importGroups.forEach: each group, and '' between two groups
RECURSIVE EmitGroups(_, _)
EmitGroups(groups, index) ==
  IF index > Len(groups) THEN <<>>
  ELSE groups[index] \o (IF index < Len(groups) THEN <<<<>>>> ELSE <<>>)
       \o EmitGroups(groups, index + 1)

JavaOrganizeImports(code, c) ==
  LET st == JavaSplitImports(SplitLines(code), 1,
              [staticImportLines |-> <<>>, importLines |-> <<>>,
               nonImportLines |-> <<>>, inImportSection |-> TRUE])
      staticImportLines == SortStrings(st.staticImportLines)
      importLines == SortStrings(st.importLines)
      nonImportLines == st.nonImportLines
      packageIndex == PackageIndex(nonImportLines)
      r1 == IF packageIndex >= 1
            THEN SubSeq(nonImportLines, 1, packageIndex) \o <<<<>>>> ELSE <<>>
      r2 == IF Len(staticImportLines) > 0
            THEN staticImportLines \o
                 (IF c.separateStaticImports /\ Len(importLines) > 0 THEN <<<<>>>> ELSE <<>>)
            ELSE <<>>
      r3 == IF Len(importLines) > 0
            THEN (IF c.separateImportGroups
                  THEN EmitGroups(JavaImportGroups(importLines), 1)
                  ELSE importLines)
            ELSE <<>>
      r4 == IF Len(importLines) > 0 \/ Len(staticImportLines) > 0 THEN <<<<>>>> ELSE <<>>
  IN JoinLines(r1 \o r2 \o r3 \o r4 \o Drop(nonImportLines, packageIndex))

ReModifiers ==
  <<Bol, Star(ReS), Opt(Grp(1, Alt(<<Lit(W_public), Lit(W_private), Lit(W_protected)>>))),
    Star(ReS), Opt(Grp(2, Lit(W_static))), Star(ReS), Opt(Grp(3, Lit(W_final))), Star(ReS),
    Plus(ReW), Plus(ReS), Plus(ReW), Star(ReS)>>

\* /^\s*(public|private|protected)?\s*(static)?\s*(final)?\s*\w+\s+\w+\s*\([^)]*\)/
IsMethodDeclaration(line) ==
  ReTest(Cat(ReModifiers \o <<Chr("("), Star(NotIn({")"})), Chr(")")>>), line)

\* /^\s*(public|private|protected)?\s*(static)?\s*(final)?\s*\w+\s+\w+\s*(=.*)?;?$/
IsFieldDeclaration(line) ==
  ReTest(Cat(ReModifiers \o
             <<Opt(Cat(<<Chr("="), Star(NotIn({NL}))>>)), Opt(Chr(";")), Eol>>), line)

\* The line type formatClassStructure gives a line at the brace depth reached
\* after counting the line's own braces.
JavaLineType(trimmedLine, braceDepth) ==
  IF trimmedLine = <<>> THEN "blank"
  ELSE IF braceDepth <= 1 /\ (Includes(trimmedLine, W_class \o <<SP>>)
                              \/ Includes(trimmedLine, W_interface \o <<SP>>)
                              \/ Includes(trimmedLine, W_enum \o <<SP>>)) THEN "class"
  ELSE IF braceDepth <= 2 /\ IsMethodDeclaration(trimmedLine) THEN "method"
  ELSE IF braceDepth <= 2 /\ IsFieldDeclaration(trimmedLine) THEN "field"
  ELSE "other"

\* braceDepth after a line of formatClassStructure
BraceDepthAfter(braceDepth, line) ==
  braceDepth + CountChar(line, "{") - CountChar(line, "}")

RECURSIVE JavaClassLoop(_, _, _, _, _, _)
JavaClassLoop(lines, i, res, previousLineType, braceDepth, c) ==
  IF i > Len(lines) THEN res
  ELSE LET line == lines[i]
           trimmedLine == Trim(line)
           depth == BraceDepthAfter(braceDepth, line)
           currentLineType == JavaLineType(trimmedLine, depth)
           r1 == IF currentLineType # "blank"
                 THEN (IF previousLineType = "class" /\ currentLineType # "class"
                          /\ c.blankLinesBetweenClasses > 0
                       THEN AddBlankLines(res, c.blankLinesBetweenClasses)
                       ELSE IF previousLineType = "method" /\ currentLineType = "method"
                               /\ c.blankLinesBetweenMethods > 0
                       THEN AddBlankLines(res, c.blankLinesBetweenMethods)
                       ELSE IF previousLineType # "blank" /\ currentLineType = "method"
                               /\ c.blankLinesBetweenMethods > 0
                       THEN AddBlankLines(res, c.blankLinesBetweenMethods)
                       ELSE res)
                 ELSE res
           r2 == IF trimmedLine # <<>> /\ Head(trimmedLine) = "@" /\ c.blankLineAfterAnnotations
                 THEN Append(r1, line) \o
                      (IF i + 1 <= Len(lines)
                          /\ ~StartsWith(Trim(lines[i + 1]), <<"@">>)
                       THEN <<<<>>>> ELSE <<>>)
                 ELSE IF currentLineType # "blank" \/ r1 = <<>> \/ r1[Len(r1)] # <<>>
                 THEN Append(r1, line)
                 ELSE r1
       IN JavaClassLoop(lines, i + 1, r2, currentLineType, depth, c)

JavaFormatClassStructure(code, c) ==
  JoinLines(JavaClassLoop(SplitLines(code), 1, <<>>, "other", 0, c))

\* /\b(if|for|while|switch)\s*\(/g
JavaFormatMethodBodies(code, c) ==
  ReplaceAll(Cat(<<WordB, Grp(1, Alt(<<Lit(W_if), Lit(W_for), Lit(W_while), Lit(W_switch)>>)),
                   Star(ReS), Chr("(")>>),
             code,
             IF c.spaceBeforeControlParens THEN <<"$1", SP, "(">> ELSE <<"$1", "(">>)

JavaApplyIndentation(code, c) == ApplyIndentation(code, c, {"}"}, {"{"})

JavaApplySpacingRules(code, c) ==
  LET a == IF c.spaceAroundOperators
           THEN ReplaceAll(Cat(<<Grp(1, NotIn({"=", "!", "<", ">"})),
                                 Grp(2, Cat(<<In({"=", "!", "<", ">"}), Opt(Chr("="))>>)),
                                 Grp(3, NotIn({"="}))>>),
                           code, <<"$1", SP, "$2", SP, "$3">>)
           ELSE code
      b == IF c.spaceAroundOperators
           THEN ReplaceAll(Cat(<<Grp(1, NotIn({"+", "-", "*", "/"})),
                                 Grp(2, In({"+", "-", "*", "/"})),
                                 Grp(3, NotIn({"="}))>>),
                           a, <<"$1", SP, "$2", SP, "$3">>)
           ELSE a
  IN IF ~c.spaceBeforeMethodParens
     THEN ReplaceAll(Cat(<<Grp(1, Plus(ReW)), Plus(ReS), Chr("(")>>), b, <<"$1", "(">>)
     ELSE b

\* finalCleanup: the over-long lines are only written to the console.
JavaFinalCleanup(code, c) == FinalNewline(code, c)

\* The lines finalCleanup reports with console.warn (1-based).
LongLines(code, c) ==
  LET lines == SplitLines(code)
  IN {k \in 1..Len(lines) : Len(lines[k]) > c.maxLineLength}

----------------------------------------------------------------------------
(* JavaScriptFormatter *)

\* The matches a g-flag replace visits, left to right.
RECURSIVE AllMatches(_, _, _), MatchesAfter(_, _, _)
AllMatches(r, s, i) == MatchesAfter(r, s, ReExec(r, s, i))

\* m: the next match
MatchesAfter(r, s, m) ==
  IF ~m.found THEN <<>>
  ELSE <<m>> \o AllMatches(r, s, IF m.e > m.b THEN m.e ELSE m.b + 1)

\* String.prototype.replace with a g-flag pattern and a replacer function.
ReplaceMatches(s, ms, F(_)) ==
  LET from(k) == IF k = 1 THEN 1 ELSE ms[k - 1].e
  IN Flatten([k \in 1..Len(ms) |-> SubSeq(s, from(k), ms[k].b - 1) \o F(ms[k])])
     \o SubSeq(s, from(Len(ms) + 1), Len(s))

ReplaceAllWith(r, s, F(_)) == ReplaceMatches(s, AllMatches(r, s, 1), F)

W_function == <<"f", "u", "n", "c", "t", "i", "o", "n">>

\* formatImports: import and export lines first, sorted as raw lines
JsFormatImports(code) ==
  LET lines == SplitLines(code)
      isImport(line) == StartsWith(Trim(line), W_import \o <<SP>>)
                        \/ StartsWith(Trim(line), W_export \o <<SP>>)
      importLines == SortStrings(SelectLines(lines, isImport))
      nonImportLines == SelectLines(lines, LAMBDA line : ~isImport(line))
  IN JoinLines((IF Len(importLines) > 0 THEN importLines \o <<<<>>>> ELSE <<>>)
               \o nonImportLines)

JsFormatFunctions(code, c) ==
  LET a == IF c.arrowParens = "avoid"
           THEN ReplaceAll(Cat(<<Chr("("), Star(ReS), Grp(1, Plus(ReW)), Star(ReS), Chr(")"),
                                 Star(ReS), Chr("="), Chr(">")>>),
                           code, <<"$1", SP, "=", ">">>)
           ELSE ReplaceAll(Cat(<<WordB, Grp(1, Plus(ReW)), Star(ReS), Chr("="), Chr(">")>>),
                           code, <<"(", "$1", ")", SP, "=", ">">>)
  IN IF c.spaceBeforeFunctionParens
     THEN ReplaceAll(Cat(<<Grp(1, Plus(ReW)), Star(ReS), Chr("(")>>),
                     ReplaceAll(Cat(<<Lit(W_function), Star(ReS), Grp(1, Plus(ReW)),
                                      Star(ReS), Chr("(")>>),
                                a, W_function \o <<SP, "$1", SP, "(">>),
                     <<"$1", SP, "(">>)
     ELSE ReplaceAll(Cat(<<Lit(W_function), Plus(ReS), Grp(1, Plus(ReW)), Plus(ReS), Chr("(")>>),
                     a, W_function \o <<SP, "$1", "(">>)

\* the inner-space rule of formatObjectsAndArrays for one pair of delimiters
InnerSpacing(code, spaced, open, close) ==
  IF spaced
  THEN ReplaceAll(Cat(<<Grp(1, ReNotS), Chr(close)>>),
                  ReplaceAll(Cat(<<Chr(open), Grp(1, ReNotS)>>), code, <<open, SP, "$1">>),
                  <<"$1", SP, close>>)
  ELSE ReplaceAll(Cat(<<Plus(ReS), Chr(close)>>),
                  ReplaceAll(Cat(<<Chr(open), Plus(ReS)>>), code, <<open>>),
                  <<close>>)

JsFormatObjectsAndArrays(code, c) ==
  InnerSpacing(InnerSpacing(code, c.spaceInObjectBraces, "{", "}"),
               c.spaceInArrayBrackets, "[", "]")

\* new RegExp(`\\b${keyword}\\s*\\(`, 'g') for each control keyword in turn
RECURSIVE JsControlFrom(_, _, _)
JsControlFrom(code, controlKeywords, k) ==
  IF k > Len(controlKeywords) THEN code
  ELSE JsControlFrom(
         ReplaceAll(Cat(<<WordB, Lit(controlKeywords[k]), Star(ReS), Chr("(")>>),
                    code, controlKeywords[k] \o <<SP, "(">>),
         controlKeywords, k + 1)

JsFormatControlStatements(code) ==
  JsControlFrom(code, <<W_if, W_for, W_while, W_switch, W_catch>>, 1)

\* handleSemicolons: the replacer sees one character before the line break
\* (char.match(/\/[\/*]/) cannot hold of a single character).
JsHandleSemicolons(code, c) ==
  IF c.useSemicolons
  THEN ReplaceAllWith(Cat(<<Grp(1, NotIn({";", "}"})), Chr(NL)>>), code,
                      LAMBDA m : LET char == Capture(code, m, 1)
                                 IN IF char # <<>> /\ char # <<"{">> /\ char # <<"}">>
                                    THEN char \o <<";", NL>>
                                    ELSE SubSeq(code, m.b, m.e - 1))
  ELSE ReplaceAll(Cat(<<Chr(";"), Grp(1, Cat(<<Star(ReS), Chr(NL)>>))>>), code, <<"$1">>)

\* /"([^"\\]*(\\.[^"\\]*)*)"/g and its single-quote twin
ReQuoted(q) ==
  Cat(<<Chr(q),
        Grp(1, Cat(<<Star(NotIn({q, "\\"})),
                     Star(Grp(2, Cat(<<Chr("\\"), NotIn({NL}), Star(NotIn({q, "\\"}))>>)))>>)),
        Chr(q)>>)

JsApplyQuoteStyle(code, c) ==
  IF c.quoteStyle = "single"
  THEN ReplaceAll(ReQuoted(DQ), code, <<"'", "$1", "'">>)
  ELSE ReplaceAll(ReQuoted("'"), code, <<DQ, "$1", DQ>>)

JsApplyIndentation(code, c) == ApplyIndentation(code, c, {"}", "]", ")"}, {"{", "[", "("})

OperatorChars == {"=", "!", "<", ">", "+", "-", "*", "/", "%", "&", "|", "^"}

\* /([^=!<>+\-*/%&|^])([=!<>+\-*/%&|^]=?)([^=])/g ; also KotlinFormatter's
JsApplySpacingRules(code, c) ==
  IF c.spaceAroundOperators
  THEN ReplaceAll(Cat(<<Grp(1, NotIn(OperatorChars)),
                        Grp(2, Cat(<<In(OperatorChars), Opt(Chr("="))>>)),
                        Grp(3, NotIn({"="}))>>),
                  code, <<"$1", SP, "$2", SP, "$3">>)
  ELSE code

\* handleTrailingCommas
JsHandleTrailingCommas(code, c) ==
  IF c.trailingComma \in {"all", "es5"}
  THEN ReplaceAll(Cat(<<Grp(1, Alt(<<Plus(ReW),
                                     Cat(<<Chr(DQ), Star(NotIn({DQ})), Chr(DQ)>>),
                                     Cat(<<Chr("'"), Star(NotIn({"'"})), Chr("'")>>)>>)),
                        Star(ReS), Chr(NL), Star(ReS), In({"}", "]"})>>),
                  code, <<"$1", ",", NL, "}">>)
  ELSE IF c.trailingComma = "none"
  THEN ReplaceAll(Cat(<<Chr(","), Grp(1, Cat(<<Star(ReS), In({"}", "]"})>>))>>),
                  code, <<"$1">>)
  ELSE code

JsFinalCleanup(code, c) == FinalNewline(code, c)

----------------------------------------------------------------------------
(* KotlinFormatter *)

W_android == <<"a", "n", "d", "r", "o", "i", "d">>
W_androidx == <<"a", "n", "d", "r", "o", "i", "d", "x">>
W_kotlin == <<"k", "o", "t", "l", "i", "n">>
W_kotlinx == <<"k", "o", "t", "l", "i", "n", "x">>
W_internal == <<"i", "n", "t", "e", "r", "n", "a", "l">>
W_abstract == <<"a", "b", "s", "t", "r", "a", "c", "t">>
W_open == <<"o", "p", "e", "n">>
W_override == <<"o", "v", "e", "r", "r", "i", "d", "e">>
W_object == <<"o", "b", "j", "e", "c", "t">>
W_fun == <<"f", "u", "n">>
W_val == <<"v", "a", "l">>
W_var == <<"v", "a", "r">>

RECURSIVE KotlinSplitImports(_, _, _)
KotlinSplitImports(lines, i, st) ==
  IF i > Len(lines) THEN st
  ELSE LET line == lines[i]
           trimmedLine == Trim(line)
       IN KotlinSplitImports(lines, i + 1,
            IF StartsWith(trimmedLine, W_import \o <<SP>>)
            THEN [st EXCEPT !.importLines = Append(@, trimmedLine)]
            ELSE IF StartsWith(trimmedLine, W_package \o <<SP>>)
                    \/ StartsWith(trimmedLine, <<"/", "/">>)
                    \/ StartsWith(trimmedLine, <<"/", "*">>)
            THEN [st EXCEPT !.nonImportLines = Append(@, line)]
            ELSE IF trimmedLine = <<>>
            THEN (IF ~st.inImportSection
                  THEN [st EXCEPT !.nonImportLines = Append(@, line)] ELSE st)
            ELSE [st EXCEPT !.inImportSection = FALSE,
                            !.nonImportLines = Append(@, line)])

\* Array.prototype.includes over a list of lines
Member(ls, x) == \E k \in 1..Len(ls) : ls[k] = x

\* The import groups of KotlinFormatter.organizeImports, the empty ones removed.
KotlinImportGroups(importLines) ==
  LET has(imp, w) == Includes(imp, w \o <<".">>)
      android(imp) == has(imp, W_android) \/ has(imp, W_androidx)
      kotlin(imp) == has(imp, W_kotlin) \/ has(imp, W_kotlinx)
      java(imp) == has(imp, W_java) \/ has(imp, W_javax)
      androidImports == SelectLines(importLines, android)
      kotlinImports == SelectLines(importLines, kotlin)
      javaImports == SelectLines(importLines, java)
      thirdPartyImports == SelectLines(importLines, LAMBDA imp :
                             ~android(imp) /\ ~kotlin(imp) /\ ~java(imp)
                             /\ (has(imp, W_com) \/ has(imp, W_org)))
      projectImports == SelectLines(importLines, LAMBDA imp :
                          ~Member(androidImports, imp) /\ ~Member(kotlinImports, imp)
                          /\ ~Member(javaImports, imp) /\ ~Member(thirdPartyImports, imp))
  IN SelectLines(<<androidImports, kotlinImports, javaImports, thirdPartyImports,
                   projectImports>>, LAMBDA group : Len(group) > 0)

KotlinOrganizeImports(code, c) ==
  LET st == KotlinSplitImports(SplitLines(code), 1,
              [importLines |-> <<>>, nonImportLines |-> <<>>, inImportSection |-> TRUE])
      importLines == SortStrings(st.importLines)
      nonImportLines == st.nonImportLines
      packageIndex == PackageIndex(nonImportLines)
      r1 == IF packageIndex >= 1
            THEN SubSeq(nonImportLines, 1, packageIndex) \o <<<<>>>> ELSE <<>>
      r2 == IF Len(importLines) > 0
            THEN (IF c.separateImportGroups
                  THEN EmitGroups(KotlinImportGroups(importLines), 1)
                  ELSE importLines)
            ELSE <<>>
      r3 == IF Len(importLines) > 0 THEN <<<<>>>> ELSE <<>>
  IN JoinLines(r1 \o r2 \o r3 \o Drop(nonImportLines, packageIndex))

\* /^\s*(public|private|internal)?\s*(abstract|final|open)?\s*(class|interface|object|enum class)\s+\w+/
IsClassDeclaration(line) ==
  ReTest(Cat(<<Bol, Star(ReS),
               Opt(Grp(1, Alt(<<Lit(W_public), Lit(W_private), Lit(W_internal)>>))), Star(ReS),
               Opt(Grp(2, Alt(<<Lit(W_abstract), Lit(W_final), Lit(W_open)>>))), Star(ReS),
               Grp(3, Alt(<<Lit(W_class), Lit(W_interface), Lit(W_object),
                            Lit(W_enum \o <<SP>> \o W_class)>>)),
               Plus(ReS), Plus(ReW)>>), line)

\* /^\s*(public|private|internal|protected)?\s*(override|abstract|final|open)?\s*fun\s+\w+/
IsFunctionDeclaration(line) ==
  ReTest(Cat(<<Bol, Star(ReS),
               Opt(Grp(1, Alt(<<Lit(W_public), Lit(W_private), Lit(W_internal),
                                Lit(W_protected)>>))), Star(ReS),
               Opt(Grp(2, Alt(<<Lit(W_override), Lit(W_abstract), Lit(W_final),
                                Lit(W_open)>>))), Star(ReS),
               Lit(W_fun), Plus(ReS), Plus(ReW)>>), line)

\* /^\s*(public|private|internal|protected)?\s*(val|var)\s+\w+/
IsPropertyDeclaration(line) ==
  ReTest(Cat(<<Bol, Star(ReS),
               Opt(Grp(1, Alt(<<Lit(W_public), Lit(W_private), Lit(W_internal),
                                Lit(W_protected)>>))), Star(ReS),
               Grp(2, Alt(<<Lit(W_val), Lit(W_var)>>)), Plus(ReS), Plus(ReW)>>), line)

KotlinLineType(trimmedLine) ==
  IF trimmedLine = <<>> THEN "blank"
  ELSE IF IsClassDeclaration(trimmedLine) THEN "class"
  ELSE IF IsFunctionDeclaration(trimmedLine) THEN "function"
  ELSE IF IsPropertyDeclaration(trimmedLine) THEN "property"
  ELSE "other"

RECURSIVE KotlinClassLoop(_, _, _, _, _)
KotlinClassLoop(lines, i, res, previousLineType, c) ==
  IF i > Len(lines) THEN res
  ELSE LET line == lines[i]
           currentLineType == KotlinLineType(Trim(line))
           r1 == IF currentLineType # "blank"
                 THEN (IF previousLineType = "class" /\ currentLineType # "class"
                          /\ c.blankLinesBetweenClasses > 0
                       THEN AddBlankLines(res, c.blankLinesBetweenClasses)
                       ELSE IF previousLineType = "function" /\ currentLineType = "function"
                               /\ c.blankLinesBetweenMethods > 0
                       THEN AddBlankLines(res, c.blankLinesBetweenMethods)
                       ELSE res)
                 ELSE res
           r2 == IF currentLineType # "blank" \/ r1 = <<>> \/ r1[Len(r1)] # <<>>
                 THEN Append(r1, line) ELSE r1
       IN KotlinClassLoop(lines, i + 1, r2, currentLineType, c)

KotlinFormatClassAndFunctionStructure(code, c) ==
  JoinLines(KotlinClassLoop(SplitLines(code), 1, <<>>, "other", c))

ReArrow == <<Star(ReS), Chr("-"), Chr(">"), Star(ReS)>>

KotlinFormatFunctionsAndLambdas(code, c) ==
  LET a == IF ~c.spaceBeforeFunctionParens
           THEN ReplaceAll(Cat(<<Lit(W_fun), Plus(ReS), Grp(1, Plus(ReW)), Plus(ReS), Chr("(")>>),
                           code, W_fun \o <<SP, "$1", "(">>)
           ELSE ReplaceAll(Cat(<<Lit(W_fun), Plus(ReS), Grp(1, Plus(ReW)), Chr("(")>>),
                           code, W_fun \o <<SP, "$1", SP, "(">>)
      lhs == Grp(1, Alt(<<Plus(ReW), Chr(")")>>))
      inBrace == Cat(<<Chr("{"), Star(ReS), Grp(1, Plus(ReW)), Star(ReS), Chr("-"), Chr(">")>>)
  IN IF c.spaceAroundLambdaArrow
     THEN ReplaceAll(inBrace,
                     ReplaceAll(Cat(<<lhs>> \o ReArrow), a, <<"$1", SP, "-", ">", SP>>),
                     <<"{", SP, "$1", SP, "-", ">">>)
     ELSE ReplaceAll(inBrace,
                     ReplaceAll(Cat(<<lhs>> \o ReArrow), a, <<"$1", "-", ">">>),
                     <<"{", "$1", "-", ">">>)

\* /(\w+|"[^"]*"|\d+)\s*->\s*/g
KotlinFormatWhenExpressions(code, c) ==
  ReplaceAll(Cat(<<Grp(1, Alt(<<Plus(ReW), Cat(<<Chr(DQ), Star(NotIn({DQ})), Chr(DQ)>>),
                               Plus(ReD)>>))>> \o ReArrow),
             code,
             IF c.spaceAroundWhenArrow THEN <<"$1", SP, "-", ">", SP>> ELSE <<"$1", "-", ">">>)

\* /(\w+)\./g -> '$1\n.'
WrapChain(text) ==
  ReplaceAll(Cat(<<Grp(1, Plus(ReW)), Chr(".")>>), text, <<"$1", NL, ".">>)

KotlinFormatChainedCalls(code, c) ==
  CASE c.chainedCallWrapping = "always" -> WrapChain(code)
    [] c.chainedCallWrapping = "if_long" ->
         LET lines == SplitLines(code)
         IN JoinLines([i \in 1..Len(lines) |->
                         IF Len(lines[i]) > c.maxLineLength /\ Includes(lines[i], <<".">>)
                         THEN WrapChain(lines[i]) ELSE lines[i]])
    [] OTHER -> code

\* /(\w+)\s*:\s*(\w+)/g
KotlinFormatTypeAnnotations(code, c) ==
  ReplaceAll(Cat(<<Grp(1, Plus(ReW)), Star(ReS), Chr(":"), Star(ReS), Grp(2, Plus(ReW))>>),
             code,
             IF c.spaceAroundTypeColon THEN <<"$1", ":", SP, "$2">> ELSE <<"$1", ":", "$2">>)

KotlinApplyIndentation(code, c) == ApplyIndentation(code, c, {"}"}, {"{"})

KotlinFinalCleanup(code, c) == FinalNewline(code, c)

----------------------------------------------------------------------------
(* JSON values, JSON.parse and JSON.stringify of a string *)

\* A decoded value is a tagged record; an object is the list of its own
\* properties in the order Object.keys gives them.
JNull == [t |-> "null"]
JBool(b) == [t |-> "bool", v |-> b]
JNum(n) == [t |-> "num", v |-> n]
JStr(str) == [t |-> "str", v |-> str]
JArr(items) == [t |-> "arr", v |-> items]
JObj(props) == [t |-> "obj", v |-> props]

DigitOrder == <<"0", "1", "2", "3", "4", "5", "6", "7", "8", "9">>
DigitValue(d) == (CHOOSE k \in 1..Len(DigitOrder) : DigitOrder[k] = d) - 1

RECURSIVE NatOf(_)
NatOf(ds) == IF ds = <<>> THEN 0
             ELSE NatOf(SubSeq(ds, 1, Len(ds) - 1)) * 10 + DigitValue(ds[Len(ds)])

\* String(n) for an integer n
RECURSIVE DigitsOfNat(_)
DigitsOfNat(n) == IF n < 10 THEN <<DigitOrder[n + 1]>>
                  ELSE DigitsOfNat(n \div 10) \o <<DigitOrder[(n % 10) + 1]>>
NumberToString(n) == IF n < 0 THEN <<"-">> \o DigitsOfNat(-n) ELSE DigitsOfNat(n)

\* An integer index key ("0", "7", "10"): such keys come first in Object.keys,
\* in ascending numeric order, whatever the order of insertion.
IsIndexKey(k) ==
  /\ k # <<>>
  /\ \A i \in 1..Len(k) : k[i] \in Digits
  /\ (Len(k) = 1 \/ k[1] # "0")
  /\ Len(k) <= 9   \* every canonical numeral of up to 9 digits is below 2^32 - 1

\* obj[k] = v on the property list of obj
ObjSet(props, k, v) ==
  IF \E i \in 1..Len(props) : props[i].k = k
  THEN [i \in 1..Len(props) |-> IF props[i].k = k THEN [k |-> k, v |-> v] ELSE props[i]]
  ELSE IF IsIndexKey(k)
  THEN LET before == {i \in 1..Len(props) :
                        IsIndexKey(props[i].k) /\ NatOf(props[i].k) < NatOf(k)}
           n == Cardinality(before)
       IN SubSeq(props, 1, n) \o <<[k |-> k, v |-> v]>> \o SubSeq(props, n + 1, Len(props))
  ELSE Append(props, [k |-> k, v |-> v])

JsonWs == {SP, TAB, NL}

RECURSIVE SkipWs(_, _)
SkipWs(s, i) == IF i <= Len(s) /\ s[i] \in JsonWs THEN SkipWs(s, i + 1) ELSE i

Fail == [ok |-> FALSE, v |-> JNull, j |-> 0]

\* The characters of a string literal from position i (after the opening
\* quote) up to the closing quote; control characters must be escaped.
RECURSIVE ParseChars(_, _, _)
ParseChars(s, i, acc) ==
  IF i > Len(s) THEN Fail
  ELSE IF s[i] = DQ THEN [ok |-> TRUE, v |-> acc, j |-> i + 1]
  ELSE IF s[i] \in {NL, TAB} THEN Fail
  ELSE IF s[i] = "\\"
  THEN (IF i + 1 > Len(s) THEN Fail
        ELSE IF s[i + 1] \in {DQ, "\\", "/"} THEN ParseChars(s, i + 2, Append(acc, s[i + 1]))
        ELSE IF s[i + 1] = "n" THEN ParseChars(s, i + 2, Append(acc, NL))
        ELSE IF s[i + 1] = "t" THEN ParseChars(s, i + 2, Append(acc, TAB))
        ELSE Fail)
  ELSE ParseChars(s, i + 1, Append(acc, s[i]))

RECURSIVE DigitRun(_, _)
DigitRun(s, i) == IF i <= Len(s) /\ s[i] \in Digits THEN DigitRun(s, i + 1) ELSE i

\* -?(0|[1-9][0-9]*) ; fractions and exponents are outside the model's alphabet
ParseNumber(s, i) ==
  LET neg == i <= Len(s) /\ s[i] = "-"
      b == IF neg THEN i + 1 ELSE i
      e == DigitRun(s, b)
  IN IF e = b \/ (s[b] = "0" /\ e > b + 1) THEN Fail
     ELSE [ok |-> TRUE,
           v |-> JNum(IF neg THEN 0 - NatOf(SubSeq(s, b, e - 1)) ELSE NatOf(SubSeq(s, b, e - 1))),
           j |-> e]

W_null == <<"n", "u", "l", "l">>
W_true == <<"t", "r", "u", "e">>
W_false == <<"f", "a", "l", "s", "e">>

At(s, i, w) == i + Len(w) - 1 <= Len(s) /\ SubSeq(s, i, i + Len(w) - 1) = w

RECURSIVE ParseValue(_, _), ParseElements(_, _, _), ParseMembers(_, _, _)

\* One JSON value from position i (leading whitespace skipped).
ParseValue(s, i0) ==
  LET i == SkipWs(s, i0)
  IN IF i > Len(s) THEN Fail
     ELSE CASE s[i] = "[" ->
                 (LET k == SkipWs(s, i + 1)
                  IN IF k <= Len(s) /\ s[k] = "]"
                     THEN [ok |-> TRUE, v |-> JArr(<<>>), j |-> k + 1]
                     ELSE ParseElements(s, i + 1, <<>>))
            [] s[i] = "{" ->
                 (LET k == SkipWs(s, i + 1)
                  IN IF k <= Len(s) /\ s[k] = "}"
                     THEN [ok |-> TRUE, v |-> JObj(<<>>), j |-> k + 1]
                     ELSE ParseMembers(s, i + 1, <<>>))
            [] s[i] = DQ ->
                 (LET r == ParseChars(s, i + 1, <<>>)
                  IN IF r.ok THEN [ok |-> TRUE, v |-> JStr(r.v), j |-> r.j] ELSE Fail)
            [] s[i] \in Digits \cup {"-"} -> ParseNumber(s, i)
            [] At(s, i, W_null) -> [ok |-> TRUE, v |-> JNull, j |-> i + 4]
            [] At(s, i, W_true) -> [ok |-> TRUE, v |-> JBool(TRUE), j |-> i + 4]
            [] At(s, i, W_false) -> [ok |-> TRUE, v |-> JBool(FALSE), j |-> i + 5]
            [] OTHER -> Fail

\* value (',' value)* ']' : a comma must be followed by a value
ParseElements(s, i, acc) ==
  LET r == ParseValue(s, i)
  IN IF ~r.ok THEN Fail
     ELSE LET k == SkipWs(s, r.j)
          IN IF k > Len(s) THEN Fail
             ELSE IF s[k] = "]" THEN [ok |-> TRUE, v |-> JArr(Append(acc, r.v)), j |-> k + 1]
             ELSE IF s[k] = "," THEN ParseElements(s, k + 1, Append(acc, r.v))
             ELSE Fail

\* string ':' value (',' string ':' value)* '}' ; a repeated key keeps its
\* first place and takes the last value
ParseMembers(s, i, acc) ==
  LET q == SkipWs(s, i)
  IN IF q > Len(s) \/ s[q] # DQ THEN Fail
     ELSE LET key == ParseChars(s, q + 1, <<>>)
          IN IF ~key.ok THEN Fail
             ELSE LET col == SkipWs(s, key.j)
                  IN IF col > Len(s) \/ s[col] # ":" THEN Fail
                     ELSE LET r == ParseValue(s, col + 1)
                          IN IF ~r.ok THEN Fail
                             ELSE LET k == SkipWs(s, r.j)
                                      props == ObjSet(acc, key.v, r.v)
                                  IN IF k > Len(s) THEN Fail
                                     ELSE IF s[k] = "}"
                                     THEN [ok |-> TRUE, v |-> JObj(props), j |-> k + 1]
                                     ELSE IF s[k] = "," THEN ParseMembers(s, k + 1, props)
                                     ELSE Fail

\* JSON.parse: [ok, v]; ok is FALSE where JSON.parse raises SyntaxError
JsonParse(s) ==
  LET r == ParseValue(s, 1)
  IN IF r.ok /\ SkipWs(s, r.j) = Len(s) + 1 THEN [ok |-> TRUE, v |-> r.v]
     ELSE [ok |-> FALSE, v |-> JNull]

\* JSON.stringify of a string
RECURSIVE EscapeChars(_)
EscapeChars(str) ==
  IF str = <<>> THEN <<>>
  ELSE (CASE Head(str) = DQ -> <<"\\", DQ>>
          [] Head(str) = "\\" -> <<"\\", "\\">>
          [] Head(str) = NL -> <<"\\", "n">>
          [] Head(str) = TAB -> <<"\\", "t">>
          [] OTHER -> <<Head(str)>>) \o EscapeChars(Tail(str))

StringifyString(str) == <<DQ>> \o EscapeChars(str) \o <<DQ>>

\* Equality of decoded values: objects compare as maps from key to value.
RECURSIVE SameValue(_, _)
SameValue(a, b) ==
  /\ a.t = b.t
  /\ CASE a.t = "null" -> TRUE
       [] a.t \in {"bool", "num", "str"} -> a.v = b.v
       [] a.t = "arr" -> /\ Len(a.v) = Len(b.v)
                         /\ \A i \in 1..Len(a.v) : SameValue(a.v[i], b.v[i])
       [] a.t = "obj" -> /\ Len(a.v) = Len(b.v)
                         /\ \A i \in 1..Len(a.v) : \E j \in 1..Len(b.v) :
                              a.v[i].k = b.v[j].k /\ SameValue(a.v[i].v, b.v[j].v)

----------------------------------------------------------------------------
(* JsonFormatter *)

\* typeof item === 'object' && item !== null
IsContainer(x) == x.t \in {"arr", "obj"}

\* Appends ',' to the elements as formatArray and formatObject do: to the last
\* one alone under trailingComma, otherwise to all but the last.
AddSeparators(elements, c) ==
  LET lastElementIndex == Len(elements)
  IN IF c.trailingComma /\ Len(elements) > 0
     THEN [i \in 1..Len(elements) |->
             IF i = lastElementIndex THEN elements[i] \o <<",">> ELSE elements[i]]
     ELSE IF Len(elements) > 1
     THEN [i \in 1..Len(elements) |->
             IF i < lastElementIndex THEN elements[i] \o <<",">> ELSE elements[i]]
     ELSE elements

\* elements.join(', ')
RECURSIVE JoinComma(_)
JoinComma(parts) ==
  IF parts = <<>> THEN <<>>
  ELSE IF Len(parts) = 1 THEN parts[1]
  ELSE parts[1] \o <<",", SP>> \o JoinComma(Tail(parts))

RECURSIVE FormatJson(_, _, _)

FormatArray(arr, currentDepth, c) ==
  LET indentString == IndentString(c)
      currentIndent == Repeat(indentString, currentDepth)
      nextIndent == Repeat(indentString, currentDepth + 1)
      shouldWrapArray == Len(arr) > c.arrayWrapThreshold
                         \/ \E i \in 1..Len(arr) : IsContainer(arr[i])
      oneLine == <<"[">> \o JoinComma([i \in 1..Len(arr) |->
                                         FormatJson(arr[i], currentDepth + 1, c)]) \o <<"]">>
      elements == [i \in 1..Len(arr) |-> nextIndent \o FormatJson(arr[i], currentDepth + 1, c)]
  IN IF Len(arr) = 0 THEN <<"[", "]">>
     ELSE IF ~shouldWrapArray /\ ~c.autoWrapNested /\ Len(oneLine) <= c.maxLineLength
     THEN oneLine
     ELSE <<"[", NL>> \o JoinLines(AddSeparators(elements, c)) \o <<NL>>
          \o currentIndent \o <<"]">>

FormatObject(obj, currentDepth, c) ==
  LET indentString == IndentString(c)
      currentIndent == Repeat(indentString, currentDepth)
      nextIndent == Repeat(indentString, currentDepth + 1)
      shouldWrapObject == Len(obj) > c.objectWrapThreshold
                          \/ \E i \in 1..Len(obj) : IsContainer(obj[i].v)
      prop(i) == <<DQ>> \o obj[i].k \o <<DQ, ":", SP>>
                 \o FormatJson(obj[i].v, currentDepth + 1, c)
      oneLine == <<"{">> \o JoinComma([i \in 1..Len(obj) |-> prop(i)]) \o <<"}">>
      properties == [i \in 1..Len(obj) |-> nextIndent \o prop(i)]
  IN IF Len(obj) = 0 THEN <<"{", "}">>
     ELSE IF ~shouldWrapObject /\ ~c.autoWrapNested /\ Len(oneLine) <= c.maxLineLength
     THEN oneLine
     ELSE <<"{", NL>> \o JoinLines(AddSeparators(properties, c)) \o <<NL>>
          \o currentIndent \o <<"}">>

\* formatJson(obj, currentDepth)
FormatJson(obj, currentDepth, c) ==
  CASE obj.t = "null" -> W_null
    [] obj.t = "bool" -> IF obj.v THEN W_true ELSE W_false
    [] obj.t = "num" -> NumberToString(obj.v)
    [] obj.t = "str" -> StringifyString(obj.v)
    [] obj.t = "arr" -> FormatArray(obj.v, currentDepth, c)
    [] obj.t = "obj" -> FormatObject(obj.v, currentDepth, c)

\* formatJson computes indentString before it looks at the value.
FormatJsonRaises(c) == IndentRaises(c)

\* obj[key] = value with key and value computed: the key '__proto__' reaches
\* the accessor of Object.prototype and the object gets no property
Assign(props, key, value) ==
  IF key = <<"_", "_", "p", "r", "o", "t", "o", "_", "_">> THEN props
  ELSE ObjSet(props, key, value)

RECURSIVE InsertAll(_, _, _)
\* sortedObj[key] = value for the pairs in turn
InsertAll(props, pairs, i) ==
  IF i > Len(pairs) THEN props
  ELSE InsertAll(Assign(props, pairs[i].k, pairs[i].v), pairs, i + 1)

\* sortObjectKeys; also LanguageSpecificSorter.sortObjectKeysRecursively
RECURSIVE SortObjectKeys(_)
SortObjectKeys(obj) ==
  CASE obj.t = "arr" -> JArr([i \in 1..Len(obj.v) |-> SortObjectKeys(obj.v[i])])
    [] obj.t = "obj" ->
         LET sortedKeys == SortStrings([i \in 1..Len(obj.v) |-> obj.v[i].k])
             valueOf(k) == obj.v[CHOOSE i \in 1..Len(obj.v) : obj.v[i].k = k].v
         IN JObj(InsertAll(<<>>, [i \in 1..Len(sortedKeys) |->
                                    [k |-> sortedKeys[i],
                                     v |-> SortObjectKeys(valueOf(sortedKeys[i]))]], 1))
    [] OTHER -> obj

\* JsonFormatter.finalCleanup
JsonFinalCleanup(code, c) ==
  FinalNewline(IF c.trimTrailingWhitespace
               THEN ReplaceAll(Cat(<<Plus(In({SP, TAB})), EolM>>), code, <<>>)
               ELSE code, c)

----------------------------------------------------------------------------
(* SqlFormatter *)

\* this.sqlKeywords
SqlKeywords ==
  <<<<"S", "E", "L", "E", "C", "T">>,
    <<"F", "R", "O", "M">>,
    <<"W", "H", "E", "R", "E">>,
    <<"J", "O", "I", "N">>,
    <<"I", "N", "N", "E", "R", SP, "J", "O", "I", "N">>,
    <<"L", "E", "F", "T", SP, "J", "O", "I", "N">>,
    <<"R", "I", "G", "H", "T", SP, "J", "O", "I", "N">>,
    <<"F", "U", "L", "L", SP, "J", "O", "I", "N">>,
    <<"G", "R", "O", "U", "P", SP, "B", "Y">>,
    <<"O", "R", "D", "E", "R", SP, "B", "Y">>,
    <<"H", "A", "V", "I", "N", "G">>,
    <<"I", "N", "S", "E", "R", "T">>,
    <<"U", "P", "D", "A", "T", "E">>,
    <<"D", "E", "L", "E", "T", "E">>,
    <<"C", "R", "E", "A", "T", "E">>,
    <<"D", "R", "O", "P">>,
    <<"A", "L", "T", "E", "R">>,
    <<"I", "N", "D", "E", "X">>,
    <<"T", "A", "B", "L", "E">>,
    <<"D", "A", "T", "A", "B", "A", "S", "E">>,
    <<"S", "C", "H", "E", "M", "A">>,
    <<"V", "I", "E", "W">>,
    <<"P", "R", "O", "C", "E", "D", "U", "R", "E">>,
    <<"F", "U", "N", "C", "T", "I", "O", "N">>,
    <<"T", "R", "I", "G", "G", "E", "R">>,
    <<"C", "O", "N", "S", "T", "R", "A", "I", "N", "T">>,
    <<"P", "R", "I", "M", "A", "R", "Y", SP, "K", "E", "Y">>,
    <<"F", "O", "R", "E", "I", "G", "N", SP, "K", "E", "Y">>,
    <<"U", "N", "I", "Q", "U", "E">>,
    <<"N", "O", "T", SP, "N", "U", "L", "L">>,
    <<"A", "N", "D">>,
    <<"O", "R">>,
    <<"N", "O", "T">>,
    <<"I", "N">>,
    <<"E", "X", "I", "S", "T", "S">>,
    <<"B", "E", "T", "W", "E", "E", "N">>,
    <<"L", "I", "K", "E">>,
    <<"I", "S">>,
    <<"N", "U", "L", "L">>,
    <<"U", "N", "I", "O", "N">>,
    <<"I", "N", "T", "E", "R", "S", "E", "C", "T">>,
    <<"E", "X", "C", "E", "P", "T">>,
    <<"C", "A", "S", "E">>,
    <<"W", "H", "E", "N">>,
    <<"T", "H", "E", "N">>,
    <<"E", "L", "S", "E">>,
    <<"E", "N", "D">>,
    <<"A", "S">>,
    <<"D", "I", "S", "T", "I", "N", "C", "T">>,
    <<"A", "L", "L">>,
    <<"A", "N", "Y">>,
    <<"S", "O", "M", "E">>,
    <<"C", "O", "U", "N", "T">>,
    <<"S", "U", "M">>,
    <<"A", "V", "G">>,
    <<"M", "I", "N">>,
    <<"M", "A", "X">>,
    <<"C", "A", "S", "T">>,
    <<"C", "O", "N", "V", "E", "R", "T">>,
    <<"S", "U", "B", "S", "T", "R", "I", "N", "G">>,
    <<"L", "E", "N", "G", "T", "H">>,
    <<"U", "P", "P", "E", "R">>,
    <<"L", "O", "W", "E", "R">>,
    <<"T", "R", "I", "M">>,
    <<"D", "E", "C", "L", "A", "R", "E">>,
    <<"S", "E", "T">>,
    <<"I", "F">>,
    <<"W", "H", "I", "L", "E">>,
    <<"F", "O", "R">>,
    <<"C", "U", "R", "S", "O", "R">>,
    <<"O", "P", "E", "N">>,
    <<"F", "E", "T", "C", "H">>,
    <<"C", "L", "O", "S", "E">>>>

\* String.prototype.split with a pattern that has one capture and matches no
\* empty text: the pieces, with the capture of each separator between them.
SplitAt(s, ms) ==
  LET from(k) == IF k = 1 THEN 1 ELSE ms[k - 1].e
  IN Flatten([k \in 1..Len(ms) |-> <<SubSeq(s, from(k), ms[k].b - 1), Capture(s, ms[k], 1)>>])
     \o <<SubSeq(s, from(Len(ms) + 1), Len(s))>>

SplitRe(s, r) == SplitAt(s, AllMatches(r, s, 1))

W_SELECT == <<"S", "E", "L", "E", "C", "T">>
W_FROM == <<"F", "R", "O", "M">>
W_WHERE == <<"W", "H", "E", "R", "E">>
W_INSERT == <<"I", "N", "S", "E", "R", "T">>
W_INTO == <<"I", "N", "T", "O">>
W_VALUES == <<"V", "A", "L", "U", "E", "S">>
W_UPDATE == <<"U", "P", "D", "A", "T", "E">>
W_SET == <<"S", "E", "T">>
W_JOIN == <<"J", "O", "I", "N">>
W_GROUP_BY == <<"G", "R", "O", "U", "P", SP, "B", "Y">>
W_ORDER_BY == <<"O", "R", "D", "E", "R", SP, "B", "Y">>
W_HAVING == <<"H", "A", "V", "I", "N", "G">>
W_AND == <<"A", "N", "D">>
W_OR == <<"O", "R">>
W_END == <<"E", "N", "D">>
W_CASE == <<"C", "A", "S", "E">>
W_BEGIN == <<"B", "E", "G", "I", "N">>

\* normalizeWhitespace of the SQL formatter: it also squeezes runs of blanks
SqlNormalizeWhitespace(code, c) ==
  LET a == IF c.indentationType = "space"
           THEN ReplaceAll(Chr(TAB), code, Repeat(<<SP>>, c.indentSize)) ELSE code
      b == IF c.trimTrailingWhitespace
           THEN ReplaceAll(Cat(<<Plus(In({SP, TAB})), EolM>>), a, <<>>) ELSE a
      d == ReplaceAll(Plus(In({SP, TAB})), b, <<SP>>)
  IN ReplaceAll(Cat(<<Chr(NL), Star(ReS), Chr(NL), Star(ReS), Chr(NL)>>), d, <<NL, NL>>)

\* word.charAt(0).toUpperCase() + word.slice(1).toLowerCase() of every word
Capitalize(keyword) ==
  [k \in 1..Len(keyword) |->
     IF k = 1 \/ keyword[k - 1] = SP THEN UpperOf(keyword[k]) ELSE LowerOf(keyword[k])]

\* What a keyword is replaced by.
KeywordInCase(keyword, c) ==
  CASE c.keywordCase = "upper" -> ToUpperCase(keyword)
    [] c.keywordCase = "lower" -> ToLowerCase(keyword)
    [] c.keywordCase = "capitalize" -> Capitalize(keyword)
    [] OTHER -> keyword

RECURSIVE SqlKeywordsFrom(_, _, _)
SqlKeywordsFrom(code, k, c) ==
  IF k > Len(SqlKeywords) THEN code
  ELSE LET \* the pattern is tried only on a text that spells the keyword
           replaced == IF Includes(ToLowerCase(code), ToLowerCase(SqlKeywords[k]))
                       THEN ReplaceAll(Cat(<<WordB, LitI(SqlKeywords[k]), WordB>>), code,
                                       KeywordInCase(SqlKeywords[k], c))
                       ELSE code
       IN IF Len(replaced) = 0 THEN replaced ELSE SqlKeywordsFrom(replaced, k + 1, c)

\* applyKeywordCase: one replace per keyword, in the order of the list
SqlApplyKeywordCase(code, c) == SqlKeywordsFrom(code, 1, c)

IsSqlKeyword(match) ==
  \E k \in 1..Len(SqlKeywords) : ToLowerCase(SqlKeywords[k]) = ToLowerCase(match)

\* applyIdentifierCase
SqlApplyIdentifierCase(code, c) ==
  IF c.identifierCase = "preserve" THEN code
  ELSE LET identifierPattern ==
             Cat(<<WordB, In(LowerCase \cup UpperCase \cup {"_"}), Star(ReW), WordB>>)
           cased(m) ==
             LET match == SubSeq(code, m.b, m.e - 1)
             IN IF IsSqlKeyword(match) THEN match
                ELSE CASE c.identifierCase = "upper" -> ToUpperCase(match)
                       [] c.identifierCase = "lower" -> ToLowerCase(match)
                       [] OTHER -> match
       IN ReplaceAllWith(identifierPattern, code, cased)

\* parts.map(part => part.trim())
TrimAll(parts) == [k \in 1..Len(parts) |-> Trim(parts[k])]

\* The indentation the statement stages write: four spaces.
FourSpaces == <<SP, SP, SP, SP>>

\* formatSelectStatements
SqlFormatSelectStatements(code, c) ==
  IF c.selectColumnsOnNewLine
  THEN LET re == Cat(<<LitI(W_SELECT), Plus(ReS), Grp(1, Lazy(AnyChar, 0, -1)),
                       Plus(ReS), LitI(W_FROM)>>)
           each(m) ==
             LET columnList == TrimAll(SplitOn(Capture(code, m, 1), ","))
             IN IF Len(columnList) > 1
                THEN W_SELECT \o <<NL>> \o FourSpaces
                       \o JoinWith(columnList, <<",", NL>> \o FourSpaces)
                       \o <<NL>> \o W_FROM
                ELSE SubSeq(code, m.b, m.e - 1)
       IN ReplaceAllWith(re, code, each)
  ELSE code

\* formatInsertStatements
SqlFormatInsertStatements(code, c) ==
  IF c.insertValuesOnNewLine
  THEN LET re == Cat(<<LitI(W_INSERT), Plus(ReS), LitI(W_INTO), Plus(ReS),
                       Grp(1, Lazy(AnyChar, 0, -1)), Plus(ReS), LitI(W_VALUES),
                       Star(ReS), Chr("(")>>)
           each(m) == W_INSERT \o <<SP>> \o W_INTO \o <<SP>> \o Trim(Capture(code, m, 1))
                        \o <<NL>> \o W_VALUES \o <<SP, "(">>
       IN ReplaceAllWith(re, code, each)
  ELSE code

\* formatUpdateDeleteStatements
SqlFormatUpdateDeleteStatements(code) ==
  LET re == Cat(<<LitI(W_UPDATE), Plus(ReS), Grp(1, Lazy(AnyChar, 0, -1)), Plus(ReS),
                  LitI(W_SET), Plus(ReS), Grp(2, Lazy(AnyChar, 0, -1)), Plus(ReS),
                  LitI(W_WHERE)>>)
      each(m) ==
        LET table == Capture(code, m, 1)
            setClause == Capture(code, m, 2)
            assignments == TrimAll(SplitOn(setClause, ","))
        IN IF Len(assignments) > 1
           THEN W_UPDATE \o <<SP>> \o Trim(table) \o <<NL>> \o W_SET \o <<NL>> \o FourSpaces
                  \o JoinWith(assignments, <<",", NL>> \o FourSpaces) \o <<NL>> \o W_WHERE
           ELSE W_UPDATE \o <<SP>> \o Trim(table) \o <<NL>> \o W_SET \o <<SP>>
                  \o Trim(setClause) \o <<NL>> \o W_WHERE
  IN ReplaceAllWith(re, code, each)

JoinKeywords ==
  <<W_JOIN,
    <<"I", "N", "N", "E", "R", SP>> \o W_JOIN,
    <<"L", "E", "F", "T", SP>> \o W_JOIN,
    <<"R", "I", "G", "H", "T", SP>> \o W_JOIN,
    <<"F", "U", "L", "L", SP>> \o W_JOIN>>

RECURSIVE SqlJoinsFrom(_, _)
SqlJoinsFrom(code, k) ==
  IF k > Len(JoinKeywords) THEN code
  ELSE LET replaced == ReplaceAll(Cat(<<Plus(ReS), Grp(1, LitI(JoinKeywords[k])), Plus(ReS)>>),
                                 code, <<NL>> \o JoinKeywords[k] \o <<SP>>)
       IN IF Len(replaced) = 0 THEN replaced ELSE SqlJoinsFrom(replaced, k + 1)

\* formatJoinStatements
SqlFormatJoinStatements(code, c) == IF c.joinOnNewLine THEN SqlJoinsFrom(code, 1) ELSE code

RECURSIVE WhereLines(_, _)
\* the operators and conditions that follow the first condition
WhereLines(conditionList, i) ==
  IF i > Len(conditionList) THEN <<>>
  ELSE <<NL, SP, SP>> \o conditionList[i] \o <<SP>> \o Trim(conditionList[i + 1])
         \o WhereLines(conditionList, i + 2)

\* formatWhereClause
SqlFormatWhereClause(code, c) ==
  IF c.whereConditionsOnNewLine
  THEN LET re == Cat(<<LitI(W_WHERE), Plus(ReS), Grp(1, Lazy(AnyChar, 0, -1)),
                       Look(Cat(<<Plus(ReS),
                                  Alt(<<LitI(W_GROUP_BY), LitI(W_ORDER_BY), LitI(W_HAVING),
                                        Eol>>)>>))>>)
           separator == Cat(<<Plus(ReS), Grp(1, Alt(<<LitI(W_AND), LitI(W_OR)>>)), Plus(ReS)>>)
           each(m) ==
             LET conditionList == SplitRe(Capture(code, m, 1), separator)
             IN IF Len(conditionList) > 2
                THEN W_WHERE \o <<SP>> \o Trim(conditionList[1]) \o WhereLines(conditionList, 2)
                ELSE SubSeq(code, m.b, m.e - 1)
       IN ReplaceAllWith(re, code, each)
  ELSE code

\* formatFunctionCalls
SqlFormatFunctionCalls(code, c) ==
  LET functionPattern ==
        Cat(<<Grp(1, Plus(ReW)), Star(ReS), Chr("("), Star(ReS),
              Grp(2, Plus(NotIn({")"}))), Star(ReS), Chr(")")>>)
      each(m) ==
        LET argList == SplitOn(Capture(code, m, 2), ",")
            formattedArgs == [k \in 1..Len(argList) |-> FourSpaces \o Trim(argList[k])]
        IN IF Len(argList) > c.functionArgWrapThreshold
           THEN Capture(code, m, 1) \o <<"(", NL>> \o JoinWith(formattedArgs, <<",", NL>>)
                  \o <<NL, ")">>
           ELSE SubSeq(code, m.b, m.e - 1)
  IN ReplaceAllWith(functionPattern, code, each)

\* formatSubqueries
SqlFormatSubqueries(code, c) ==
  IF c.indentSubqueries
  THEN LET a == ReplaceAll(Cat(<<Chr("("), Star(ReS), LitI(W_SELECT)>>), code,
                           <<"(", NL>> \o FourSpaces \o W_SELECT)
       IN ReplaceAll(Cat(<<Chr(")"), Star(ReS), Grp(1, In({","} \cup WhiteSpace))>>), a,
                     <<NL, ")", "$1">>)
  ELSE code

\* adjustCommaPosition
SqlAdjustCommaPosition(code, c) ==
  IF c.commaPosition = "leading"
  THEN ReplaceAll(Cat(<<Chr(","), Star(ReS), Chr(NL), Star(ReS)>>), code, <<NL, ",", SP>>)
  ELSE ReplaceAll(Cat(<<Chr(NL), Star(ReS), Chr(","), Star(ReS)>>), code, <<",", NL>>)

RECURSIVE SqlIndentFrom(_, _, _, _)
SqlIndentFrom(lines, i, indentLevel, indentString) ==
  IF i > Len(lines) THEN <<>>
  ELSE LET trimmedLine == Trim(lines[i])
       IN IF trimmedLine = <<>>
          THEN <<<<>>>> \o SqlIndentFrom(lines, i + 1, indentLevel, indentString)
          ELSE LET lvl == IF StartsWith(trimmedLine, <<")">>) \/ Includes(trimmedLine, W_END)
                          THEN (IF indentLevel - 1 > 0 THEN indentLevel - 1 ELSE 0)
                          ELSE indentLevel
                   next == IF \/ EndsWith(trimmedLine, <<"(">>)
                              \/ Includes(ToUpperCase(trimmedLine), W_CASE)
                              \/ Includes(ToUpperCase(trimmedLine), W_BEGIN)
                           THEN lvl + 1 ELSE lvl
               IN <<Repeat(indentString, lvl) \o trimmedLine>>
                  \o SqlIndentFrom(lines, i + 1, next, indentString)

\* applyIndentation of the SQL formatter
SqlApplyIndentation(code, c) ==
  JoinLines(SqlIndentFrom(SplitLines(code), 1, 0, IndentString(c)))

----------------------------------------------------------------------------
(* Conventions: presets of PresetConventions and conventions edited from them *)

GoogleJava ==
  [indentationType |-> "space", indentSize |-> 2, maxLineLength |-> 100,
   insertFinalNewline |-> TRUE, trimTrailingWhitespace |-> TRUE, braceStyle |-> "kr",
   organizeImports |-> TRUE, separateStaticImports |-> TRUE, separateImportGroups |-> TRUE,
   blankLinesBetweenMethods |-> 1, blankLinesBetweenClasses |-> 2,
   blankLineAfterAnnotations |-> FALSE, spaceAroundOperators |-> TRUE,
   spaceBeforeMethodParens |-> FALSE, spaceBeforeControlParens |-> TRUE]

EclipseJava ==
  [GoogleJava EXCEPT !.indentationType = "tab", !.indentSize = 1, !.maxLineLength = 120,
                     !.blankLineAfterAnnotations = TRUE]

\* An edited convention: nothing organised or trimmed, a short line limit.
PlainJava ==
  [GoogleJava EXCEPT !.maxLineLength = 8, !.insertFinalNewline = FALSE,
                     !.trimTrailingWhitespace = FALSE, !.braceStyle = "allman",
                     !.organizeImports = FALSE, !.spaceAroundOperators = FALSE,
                     !.spaceBeforeMethodParens = TRUE, !.spaceBeforeControlParens = FALSE]

\* A convention whose indentSize makes ' '.repeat raise.
BrokenJava == [GoogleJava EXCEPT !.indentSize = -1]

JavaConventions == {GoogleJava, EclipseJava, PlainJava, BrokenJava}

AirbnbJavaScript ==
  [indentationType |-> "space", indentSize |-> 2, maxLineLength |-> 100,
   insertFinalNewline |-> TRUE, trimTrailingWhitespace |-> TRUE, quoteStyle |-> "single",
   useSemicolons |-> TRUE, trailingComma |-> "all", braceStyle |-> "kr",
   arrowParens |-> "always", spaceAroundOperators |-> TRUE,
   spaceBeforeFunctionParens |-> FALSE, spaceInObjectBraces |-> TRUE,
   spaceInArrayBrackets |-> FALSE]

StandardJavaScript ==
  [AirbnbJavaScript EXCEPT !.useSemicolons = FALSE, !.trailingComma = "none",
                           !.arrowParens = "avoid", !.spaceBeforeFunctionParens = TRUE]

PlainJavaScript ==
  [AirbnbJavaScript EXCEPT !.indentationType = "tab", !.maxLineLength = 8,
                           !.insertFinalNewline = FALSE, !.trimTrailingWhitespace = FALSE,
                           !.quoteStyle = "double", !.useSemicolons = FALSE,
                           !.trailingComma = "none", !.braceStyle = "allman",
                           !.spaceAroundOperators = FALSE, !.spaceInObjectBraces = FALSE,
                           !.spaceInArrayBrackets = TRUE]

BrokenJavaScript == [AirbnbJavaScript EXCEPT !.indentSize = -1]

\* The edited convention with a trailing comma wherever one may stand
TrailingJavaScript == [PlainJavaScript EXCEPT !.trailingComma = "all"]

JavaScriptConventions ==
  {AirbnbJavaScript, StandardJavaScript, PlainJavaScript, TrailingJavaScript,
   BrokenJavaScript}

KotlinOfficial ==
  [indentationType |-> "space", indentSize |-> 4, maxLineLength |-> 120,
   insertFinalNewline |-> TRUE, trimTrailingWhitespace |-> TRUE, braceStyle |-> "kr",
   organizeImports |-> TRUE, separateImportGroups |-> TRUE,
   blankLinesBetweenMethods |-> 1, blankLinesBetweenClasses |-> 2,
   spaceAroundOperators |-> TRUE, spaceBeforeFunctionParens |-> FALSE,
   spaceAroundTypeColon |-> TRUE, spaceAroundLambdaArrow |-> TRUE,
   spaceAroundWhenArrow |-> TRUE, chainedCallWrapping |-> "if_long"]

AndroidKotlin ==
  [KotlinOfficial EXCEPT !.maxLineLength = 100, !.chainedCallWrapping = "always"]

PlainKotlin ==
  [KotlinOfficial EXCEPT !.indentationType = "tab", !.maxLineLength = 8,
                         !.insertFinalNewline = FALSE, !.trimTrailingWhitespace = FALSE,
                         !.braceStyle = "allman", !.organizeImports = FALSE,
                         !.spaceAroundOperators = FALSE, !.spaceBeforeFunctionParens = TRUE,
                         !.spaceAroundTypeColon = FALSE, !.spaceAroundLambdaArrow = FALSE,
                         !.spaceAroundWhenArrow = FALSE, !.chainedCallWrapping = "off"]

BrokenKotlin == [KotlinOfficial EXCEPT !.indentSize = -1]

KotlinConventions == {KotlinOfficial, AndroidKotlin, PlainKotlin, BrokenKotlin}

StandardJson ==
  [indentationType |-> "space", indentSize |-> 2, maxLineLength |-> 120,
   insertFinalNewline |-> TRUE, trimTrailingWhitespace |-> TRUE, quoteStyle |-> "double",
   trailingComma |-> FALSE, arrayWrapThreshold |-> 3, objectWrapThreshold |-> 3,
   autoWrapNested |-> TRUE, sortKeys |-> FALSE]

CompactJson ==
  [StandardJson EXCEPT !.indentSize = 1, !.maxLineLength = 200,
                       !.insertFinalNewline = FALSE, !.arrayWrapThreshold = 10,
                       !.objectWrapThreshold = 10, !.autoWrapNested = FALSE,
                       !.sortKeys = TRUE]

\* Edited conventions: every value of trailingComma, sortKeys and autoWrapNested,
\* thresholds and a line limit that a short value exceeds, both quote styles.
EditedJson ==
  {[StandardJson EXCEPT !.trailingComma = tc, !.sortKeys = sk, !.autoWrapNested = aw,
                        !.arrayWrapThreshold = th, !.objectWrapThreshold = th,
                        !.maxLineLength = ml, !.quoteStyle = qs] :
     tc \in BOOLEAN, sk \in BOOLEAN, aw \in BOOLEAN, th \in {1, 3}, ml \in {6, 120},
     qs \in {"double", "single"}}

BrokenJson == [StandardJson EXCEPT !.indentSize = -1, !.quoteStyle = "single"]

JsonConventions == {StandardJson, CompactJson, BrokenJson} \cup EditedJson

StandardSql ==
  [indentationType |-> "space", indentSize |-> 2, maxLineLength |-> 120,
   insertFinalNewline |-> TRUE, trimTrailingWhitespace |-> TRUE, keywordCase |-> "upper",
   identifierCase |-> "lower", commaPosition |-> "trailing",
   selectColumnsOnNewLine |-> TRUE, whereConditionsOnNewLine |-> TRUE,
   joinOnNewLine |-> TRUE, indentSubqueries |-> TRUE, functionArgWrapThreshold |-> 3,
   insertValuesOnNewLine |-> TRUE]

PostgresqlSql ==
  [StandardSql EXCEPT !.indentSize = 4, !.maxLineLength = 100, !.keywordCase = "lower",
                      !.commaPosition = "leading", !.functionArgWrapThreshold = 2,
                      !.insertValuesOnNewLine = FALSE]

CompactSql ==
  [StandardSql EXCEPT !.indentSize = 1, !.maxLineLength = 200, !.insertFinalNewline = FALSE,
                      !.identifierCase = "preserve", !.selectColumnsOnNewLine = FALSE,
                      !.whereConditionsOnNewLine = FALSE, !.joinOnNewLine = FALSE,
                      !.indentSubqueries = FALSE, !.functionArgWrapThreshold = 10,
                      !.insertValuesOnNewLine = FALSE]

\* A convention as the settings dialog can leave it.
EditedSql ==
  [StandardSql EXCEPT !.indentationType = "tab", !.maxLineLength = 10,
                      !.trimTrailingWhitespace = FALSE, !.keywordCase = "capitalize",
                      !.identifierCase = "upper"]

BrokenSql == [StandardSql EXCEPT !.indentSize = -1]

SqlConventions == {StandardSql, PostgresqlSql, CompactSql, EditedSql, BrokenSql}

----------------------------------------------------------------------------
(* Input texts *)

\* An input has at most MaxParts lines of the language's vocabulary.
MaxParts == 2

RECURSIVE Docs(_, _)
\* the sequences of 1..n lines
Docs(lines, n) ==
  IF n <= 1 THEN {<<l>> : l \in lines}
  ELSE LET shorter == Docs(lines, n - 1)
       IN shorter \cup {Append(d, l) : d \in {x \in shorter : Len(x) = n - 1}, l \in lines}

Texts(lines) == {JoinLines(d) : d \in Docs(lines, MaxParts)}

JavaLines ==
  {<<>>,
   W_import \o <<SP, "b", ";">>,
   <<SP>> \o W_import \o <<SP, "a", ";">>,
   <<"a", "=", "b", ";">>,
   W_class \o <<SP, "A", SP, "{">>,
   <<TAB>> \o W_if \o <<"(", "x", ")", "{">>,
   <<"}">>}

JavaScriptLines ==
  {<<>>,
   <<SP>> \o W_import \o <<SP, "b">>,
   W_import \o <<SP, "a">>,
   <<"a", "=", "b">>,
   <<TAB>> \o W_if \o <<"(", "x", ")", "{">>,
   <<"x", "=", ">", "[", "'", "s", "'", ",">>,
   <<"}">>}

KotlinLines ==
  {<<>>,
   W_import \o <<SP, "b">>,
   <<SP>> \o W_import \o <<SP, "a">>,
   <<"v", "a", "l", SP, "x", ":", "T", "=", "1">>,
   <<TAB>> \o <<"f", "u", "n", SP, "f", "(", ")", SP, "{">>,
   <<"a", ".", "b", "(", ")", ".", "c", "(", ")">>,
   <<"}">>}

SqlLines ==
  {<<>>,
   <<"s", "e", "l", "e", "c", "t", SP, "a", ",", SP, "B", SP, "f", "r", "o", "m", SP, "t">>,
   <<"w", "h", "e", "r", "e", SP, "x", "=", "1", SP, "a", "n", "d", SP, "y", "=", "2">>,
   <<TAB, "t", SP, SP, "J", "o", "i", "n", SP, "u">>,
   <<"f", "(", "a", ",", "b", ",", "c", ",", "d", ")">>,
   <<"(", "S", "E", "L", "E", "C", "T", SP, "1", ")", SP, ",", "c", "a", "s", "e">>}

\* JSON documents, and texts JSON.parse rejects
JsonDocuments ==
  {<<"1">>,
   <<"-", "1", "2">>,
   <<DQ, "a", SP, DQ>>,
   <<"[", "]">>,
   <<"[", "1", ",", SP, "2", "]">>,
   <<"[", "1", ",", "[", "t", "r", "u", "e", "]", "]">>,
   <<"[", "{", "}", "]">>,
   <<"{", DQ, "b", DQ, ":", "n", "u", "l", "l", ",", DQ, "a", DQ, ":", DQ, "x", DQ, "}">>,
   <<"{", DQ, "1", "0", DQ, ":", "{", DQ, "k", DQ, ":", "[", "]", "}", ",",
     DQ, "9", DQ, ":", "1", "}">>,
   <<SP, "{", DQ, "a", DQ, SP, ":", SP, "1", "}", NL>>,
   <<"{", DQ, "a", "\\", DQ, "b", DQ, ":", "1", "}">>,
   <<"[", NL, SP, SP, "1", NL, "]", NL>>}

NotJson ==
  {<<>>,
   <<SP>>,
   <<"[", "1", ",", "]">>,
   <<"{">>,
   <<"{", "a", ":", "1", "}">>,
   <<"0", "1">>,
   <<"[", "1", SP, "2", "]">>,
   <<"n", "u", "l">>,
   <<"[", NL, SP, SP, "1", ",", NL, "]", NL>>}

JsonTexts == JsonDocuments \cup NotJson

\* SupportedLanguage, and a selector outside it
Formatters == {"java", "json", "javascript", "kotlin", "sql"}
Selectors == Formatters \cup {"python"}

\* A text whose last two lines are blank
EndsWithBlankLines == <<"a", "=", "b", ";">> \o <<NL, NL>>

\* An import whose path holds the prefix of two groups
JavaMixedImport == <<"i", "m", "p", "o", "r", "t", SP, "c", "o", "m", ".", "j", "a", "v", "a", ".", "A", ";">>
KotlinMixedImport == <<"i", "m", "p", "o", "r", "t", SP, "k", "o", "t", "l", "i", "n", ".", "j", "a", "v", "a", ".", "A">>

\* An array literal with its member on a line of its own
ArrayOverLines == <<"x", SP, "=", SP, "[">> \o <<NL, "1", NL, "]">>

InputsOf(l) ==
  CASE l = "java" -> Texts(JavaLines) \cup {EndsWithBlankLines, JavaMixedImport}
    [] l = "javascript" -> Texts(JavaScriptLines) \cup {ArrayOverLines}
    [] l = "kotlin" -> Texts(KotlinLines) \cup {KotlinMixedImport}
    [] l = "json" -> JsonTexts
    [] l = "sql" -> Texts(SqlLines)
    [] OTHER -> Texts({<<>>, <<SP>>, <<"a", "=", "b", ";">>})

ConventionsOf(l) ==
  CASE l = "java" -> JavaConventions
    [] l = "javascript" -> JavaScriptConventions
    [] l = "kotlin" -> KotlinConventions
    [] l = "json" -> JsonConventions
    [] l = "sql" -> SqlConventions
    [] OTHER -> {GoogleJava}

\* The same lines with other leading whitespace: none, and one more space.
MapLines(code, F(_)) ==
  LET lines == SplitLines(code) IN JoinLines([k \in 1..Len(lines) |-> F(lines[k])])

Reindentations(code) ==
  {MapLines(code, TrimStart), MapLines(code, LAMBDA line : <<SP>> \o line)}

SameButLeadingWhitespace(a, b) == MapLines(a, TrimStart) = MapLines(b, TrimStart)

----------------------------------------------------------------------------
(* The formatter calls, stage by stage *)

NoResult == [pending |-> TRUE]
NoCall == [input |-> <<>>, result |-> NoResult]

Init ==
  /\ lang \in Selectors
  /\ input \in InputsOf(lang)
  /\ conv \in ConventionsOf(lang)
  /\ pc \in (IF lang \in Formatters THEN {"formatCode", "format"} ELSE {"formatCode"})
  /\ cur = <<>>
  /\ warnings = <<>>
  /\ console = <<>>
  /\ result = NoResult
  /\ stages = <<>>
  /\ pass = "first"
  /\ prev = NoCall

\* What a step of a call leaves alone.
SameCall == UNCHANGED <<lang, input, conv, pass, prev>>

\* A stage raises: the catch block of format returns.
Raise(message) ==
  /\ result' = Caught(input, warnings, message)
  /\ pc' = "done"
  /\ UNCHANGED <<cur, warnings, console, stages>>

\* formattedCode = this.stage(formattedCode)
Hand(stage, next, out) ==
  /\ cur' = out
  /\ stages' = Append(stages, stage)
  /\ pc' = next
  /\ UNCHANGED <<warnings, console, result>>

\* A stage the convention switches off.
Skip(next) ==
  /\ pc' = next
  /\ UNCHANGED <<cur, warnings, console, stages, result>>

\* finalCleanup, countChangedLines and the return of format
Return(formattedCode, logged) ==
  /\ cur' = formattedCode
  /\ stages' = Append(stages, "finalCleanup")
  /\ console' = logged
  /\ result' = Formatted(input, formattedCode, warnings)
  /\ pc' = "done"
  /\ UNCHANGED warnings

Running(l, stage) == pc = stage /\ lang = l

\* formatCode without the validation of its input
FormatCodeUnvalidated ==
  /\ pc = "formatCode"
  /\ IF lang \in {"java", "json", "javascript", "kotlin", "sql"}
     THEN /\ pc' = "format"
          /\ UNCHANGED result
     ELSE /\ result' = [formattedCode |-> input, changedLines |-> 0,
                        warnings |-> <<>>, errors |-> <<"unsupported language">>]
          /\ pc' = "returned"
  /\ UNCHANGED <<cur, warnings, console, stages>>
  /\ SameCall

\* FormattingService.formatCode
FormatCode ==
  /\ pc = "formatCode"
  /\ IF input = <<>> \/ Trim(input) = <<>>
     THEN /\ result' = [formattedCode |-> input, changedLines |-> 0,
                        warnings |-> <<"empty input">>, errors |-> <<>>]
          /\ pc' = "returned"
     ELSE IF lang \in {"java", "json", "javascript", "kotlin", "sql"}
     THEN /\ pc' = "format"
          /\ UNCHANGED result
     ELSE /\ result' = [formattedCode |-> input, changedLines |-> 0,
                        warnings |-> <<>>, errors |-> <<"unsupported language">>]
          /\ pc' = "returned"
  /\ UNCHANGED <<cur, warnings, console, stages>>
  /\ SameCall

(* JavaFormatter.format *)

Java_normalizeWhitespace ==
  /\ Running("java", "format")
  /\ IF NormalizeRaises(conv) THEN Raise("RangeError")
     ELSE Hand("normalizeWhitespace", "organizeImports", NormalizeWhitespace(input, conv))
  /\ SameCall

Java_organizeImports ==
  /\ Running("java", "organizeImports")
  /\ IF conv.organizeImports
     THEN Hand("organizeImports", "formatClassStructure", JavaOrganizeImports(cur, conv))
     ELSE Skip("formatClassStructure")
  /\ SameCall

Java_formatClassStructure ==
  /\ Running("java", "formatClassStructure")
  /\ Hand("formatClassStructure", "formatMethodBodies", JavaFormatClassStructure(cur, conv))
  /\ SameCall

Java_formatMethodBodies ==
  /\ Running("java", "formatMethodBodies")
  /\ Hand("formatMethodBodies", "applyIndentation", JavaFormatMethodBodies(cur, conv))
  /\ SameCall

Java_applyIndentation ==
  /\ Running("java", "applyIndentation")
  /\ IF IndentRaises(conv) THEN Raise("RangeError")
     ELSE Hand("applyIndentation", "applyBraceStyle", JavaApplyIndentation(cur, conv))
  /\ SameCall

Java_applyBraceStyle ==
  /\ Running("java", "applyBraceStyle")
  /\ Hand("applyBraceStyle", "applySpacingRules", ApplyBraceStyle(cur, conv))
  /\ SameCall

Java_applySpacingRules ==
  /\ Running("java", "applySpacingRules")
  /\ Hand("applySpacingRules", "finalCleanup", JavaApplySpacingRules(cur, conv))
  /\ SameCall

Java_finalCleanup ==
  /\ Running("java", "finalCleanup")
  /\ LET code == JavaFinalCleanup(cur, conv) IN Return(code, LongLines(code, conv))
  /\ SameCall


(* JavaScriptFormatter.format *)

Js_normalizeWhitespace ==
  /\ Running("javascript", "format")
  /\ IF NormalizeRaises(conv) THEN Raise("RangeError")
     ELSE Hand("normalizeWhitespace", "formatImports", NormalizeWhitespace(input, conv))
  /\ SameCall

Js_formatImports ==
  /\ Running("javascript", "formatImports")
  /\ Hand("formatImports", "formatFunctions", JsFormatImports(cur))
  /\ SameCall

Js_formatFunctions ==
  /\ Running("javascript", "formatFunctions")
  /\ Hand("formatFunctions", "formatObjectsAndArrays", JsFormatFunctions(cur, conv))
  /\ SameCall

Js_formatObjectsAndArrays ==
  /\ Running("javascript", "formatObjectsAndArrays")
  /\ Hand("formatObjectsAndArrays", "formatControlStatements",
          JsFormatObjectsAndArrays(cur, conv))
  /\ SameCall

Js_formatControlStatements ==
  /\ Running("javascript", "formatControlStatements")
  /\ Hand("formatControlStatements", "handleSemicolons", JsFormatControlStatements(cur))
  /\ SameCall

Js_handleSemicolons ==
  /\ Running("javascript", "handleSemicolons")
  /\ Hand("handleSemicolons", "applyQuoteStyle", JsHandleSemicolons(cur, conv))
  /\ SameCall

Js_applyQuoteStyle ==
  /\ Running("javascript", "applyQuoteStyle")
  /\ Hand("applyQuoteStyle", "applyIndentation", JsApplyQuoteStyle(cur, conv))
  /\ SameCall

Js_applyIndentation ==
  /\ Running("javascript", "applyIndentation")
  /\ IF IndentRaises(conv) THEN Raise("RangeError")
     ELSE Hand("applyIndentation", "applyBraceStyle", JsApplyIndentation(cur, conv))
  /\ SameCall

Js_applyBraceStyle ==
  /\ Running("javascript", "applyBraceStyle")
  /\ Hand("applyBraceStyle", "applySpacingRules", ApplyBraceStyle(cur, conv))
  /\ SameCall

Js_applySpacingRules ==
  /\ Running("javascript", "applySpacingRules")
  /\ Hand("applySpacingRules", "handleTrailingCommas", JsApplySpacingRules(cur, conv))
  /\ SameCall

Js_handleTrailingCommas ==
  /\ Running("javascript", "handleTrailingCommas")
  /\ Hand("handleTrailingCommas", "finalCleanup", JsHandleTrailingCommas(cur, conv))
  /\ SameCall

Js_finalCleanup ==
  /\ Running("javascript", "finalCleanup")
  /\ Return(JsFinalCleanup(cur, conv), console)
  /\ SameCall

(* KotlinFormatter.format *)

Kotlin_normalizeWhitespace ==
  /\ Running("kotlin", "format")
  /\ IF NormalizeRaises(conv) THEN Raise("RangeError")
     ELSE Hand("normalizeWhitespace", "organizeImports", NormalizeWhitespace(input, conv))
  /\ SameCall

Kotlin_organizeImports ==
  /\ Running("kotlin", "organizeImports")
  /\ IF conv.organizeImports
     THEN Hand("organizeImports", "formatClassAndFunctionStructure",
               KotlinOrganizeImports(cur, conv))
     ELSE Skip("formatClassAndFunctionStructure")
  /\ SameCall

Kotlin_formatClassAndFunctionStructure ==
  /\ Running("kotlin", "formatClassAndFunctionStructure")
  /\ Hand("formatClassAndFunctionStructure", "formatFunctionsAndLambdas",
          KotlinFormatClassAndFunctionStructure(cur, conv))
  /\ SameCall

Kotlin_formatFunctionsAndLambdas ==
  /\ Running("kotlin", "formatFunctionsAndLambdas")
  /\ Hand("formatFunctionsAndLambdas", "formatWhenExpressions",
          KotlinFormatFunctionsAndLambdas(cur, conv))
  /\ SameCall

Kotlin_formatWhenExpressions ==
  /\ Running("kotlin", "formatWhenExpressions")
  /\ Hand("formatWhenExpressions", "formatChainedCalls", KotlinFormatWhenExpressions(cur, conv))
  /\ SameCall

Kotlin_formatChainedCalls ==
  /\ Running("kotlin", "formatChainedCalls")
  /\ Hand("formatChainedCalls", "formatTypeAnnotations", KotlinFormatChainedCalls(cur, conv))
  /\ SameCall

Kotlin_formatTypeAnnotations ==
  /\ Running("kotlin", "formatTypeAnnotations")
  /\ Hand("formatTypeAnnotations", "applyIndentation", KotlinFormatTypeAnnotations(cur, conv))
  /\ SameCall

Kotlin_applyIndentation ==
  /\ Running("kotlin", "applyIndentation")
  /\ IF IndentRaises(conv) THEN Raise("RangeError")
     ELSE Hand("applyIndentation", "applyBraceStyle", KotlinApplyIndentation(cur, conv))
  /\ SameCall

Kotlin_applyBraceStyle ==
  /\ Running("kotlin", "applyBraceStyle")
  /\ Hand("applyBraceStyle", "applySpacingRules", ApplyBraceStyle(cur, conv))
  /\ SameCall

Kotlin_applySpacingRules ==
  /\ Running("kotlin", "applySpacingRules")
  /\ Hand("applySpacingRules", "finalCleanup", JsApplySpacingRules(cur, conv))
  /\ SameCall

Kotlin_finalCleanup ==
  /\ Running("kotlin", "finalCleanup")
  /\ Return(KotlinFinalCleanup(cur, conv), console)
  /\ SameCall

(* JsonFormatter.format *)

\* A decode whose failure falls through to the later stages.
Json_parseLenient ==
  /\ Running("json", "format")
  /\ cur' = JsonParse(input).v
  /\ pc' = "sortKeys"
  /\ UNCHANGED <<warnings, console, stages, result>>
  /\ SameCall

\* JSON.parse(code); its own catch returns at once.
Json_parse ==
  /\ Running("json", "format")
  /\ LET parsed == JsonParse(input)
     IN IF ~parsed.ok THEN Raise("SyntaxError")
        ELSE /\ cur' = parsed.v
             /\ pc' = "sortKeys"
             /\ UNCHANGED <<warnings, console, stages, result>>
  /\ SameCall

Json_sortKeys ==
  /\ Running("json", "sortKeys")
  /\ IF conv.sortKeys THEN Hand("sortObjectKeys", "quoteStyle", SortObjectKeys(cur))
     ELSE Skip("quoteStyle")
  /\ SameCall

Json_quoteStyle ==
  /\ Running("json", "quoteStyle")
  /\ warnings' = IF conv.quoteStyle = "single"
                 THEN Append(warnings, "single quotes are not supported") ELSE warnings
  /\ stages' = Append(stages, "quoteStyle")
  /\ pc' = "formatJson"
  /\ UNCHANGED <<cur, console, result>>
  /\ SameCall

Json_formatJson ==
  /\ Running("json", "formatJson")
  /\ IF FormatJsonRaises(conv) THEN Raise("RangeError")
     ELSE Hand("formatJson", "finalCleanup", FormatJson(cur, 0, conv))
  /\ SameCall

Json_finalCleanup ==
  /\ Running("json", "finalCleanup")
  /\ Return(JsonFinalCleanup(cur, conv), console)
  /\ SameCall

(* SqlFormatter.format *)

Sql_normalizeWhitespace ==
  /\ Running("sql", "format")
  /\ IF NormalizeRaises(conv) THEN Raise("RangeError")
     ELSE Hand("normalizeWhitespace", "applyKeywordCase", SqlNormalizeWhitespace(input, conv))
  /\ SameCall

Sql_applyKeywordCase ==
  /\ Running("sql", "applyKeywordCase")
  /\ Hand("applyKeywordCase", "applyIdentifierCase", SqlApplyKeywordCase(cur, conv))
  /\ SameCall

Sql_applyIdentifierCase ==
  /\ Running("sql", "applyIdentifierCase")
  /\ Hand("applyIdentifierCase", "formatSelectStatements", SqlApplyIdentifierCase(cur, conv))
  /\ SameCall

Sql_formatSelectStatements ==
  /\ Running("sql", "formatSelectStatements")
  /\ Hand("formatSelectStatements", "formatInsertStatements", SqlFormatSelectStatements(cur, conv))
  /\ SameCall

Sql_formatInsertStatements ==
  /\ Running("sql", "formatInsertStatements")
  /\ Hand("formatInsertStatements", "formatUpdateDeleteStatements", SqlFormatInsertStatements(cur, conv))
  /\ SameCall

Sql_formatUpdateDeleteStatements ==
  /\ Running("sql", "formatUpdateDeleteStatements")
  /\ Hand("formatUpdateDeleteStatements", "formatJoinStatements", SqlFormatUpdateDeleteStatements(cur))
  /\ SameCall

Sql_formatJoinStatements ==
  /\ Running("sql", "formatJoinStatements")
  /\ Hand("formatJoinStatements", "formatWhereClause", SqlFormatJoinStatements(cur, conv))
  /\ SameCall

Sql_formatWhereClause ==
  /\ Running("sql", "formatWhereClause")
  /\ Hand("formatWhereClause", "formatFunctionCalls", SqlFormatWhereClause(cur, conv))
  /\ SameCall

Sql_formatFunctionCalls ==
  /\ Running("sql", "formatFunctionCalls")
  /\ Hand("formatFunctionCalls", "formatSubqueries", SqlFormatFunctionCalls(cur, conv))
  /\ SameCall

Sql_formatSubqueries ==
  /\ Running("sql", "formatSubqueries")
  /\ Hand("formatSubqueries", "adjustCommaPosition", SqlFormatSubqueries(cur, conv))
  /\ SameCall

Sql_adjustCommaPosition ==
  /\ Running("sql", "adjustCommaPosition")
  /\ Hand("adjustCommaPosition", "applyIndentation", SqlAdjustCommaPosition(cur, conv))
  /\ SameCall

Sql_applyIndentation ==
  /\ Running("sql", "applyIndentation")
  /\ IF IndentRaises(conv) THEN Raise("RangeError")
     ELSE Hand("applyIndentation", "finalCleanup", SqlApplyIndentation(cur, conv))
  /\ SameCall

Sql_finalCleanup ==
  /\ Running("sql", "finalCleanup")
  /\ LET code == FinalNewline(cur, conv) IN Return(code, LongLines(code, conv))
  /\ SameCall

(* The caller formats a second text *)

Call(code, how) ==
  /\ pc = "done"
  /\ pass = "first"
  /\ input' = code
  /\ pass' = how
  /\ prev' = [input |-> input, result |-> result]
  /\ pc' = "format"
  /\ cur' = <<>>
  /\ warnings' = <<>>
  /\ console' = <<>>
  /\ result' = NoResult
  /\ stages' = <<>>
  /\ UNCHANGED <<lang, conv>>

\* format(format(x).formattedCode)
FormatAgain == Call(result.formattedCode, "again")

\* format of the first input with other leading whitespace
FormatReindented ==
  /\ lang \in {"java", "javascript", "kotlin"}
  /\ \E code \in Reindentations(input) \ {input} : Call(code, "reindented")

Next ==
  \/ FormatCode
  \/ Java_normalizeWhitespace \/ Java_organizeImports \/ Java_formatClassStructure
  \/ Java_formatMethodBodies \/ Java_applyIndentation \/ Java_applyBraceStyle
  \/ Java_applySpacingRules \/ Java_finalCleanup
  \/ Js_normalizeWhitespace \/ Js_formatImports \/ Js_formatFunctions
  \/ Js_formatObjectsAndArrays \/ Js_formatControlStatements \/ Js_handleSemicolons
  \/ Js_applyQuoteStyle \/ Js_applyIndentation \/ Js_applyBraceStyle
  \/ Js_applySpacingRules \/ Js_handleTrailingCommas \/ Js_finalCleanup
  \/ Kotlin_normalizeWhitespace \/ Kotlin_organizeImports
  \/ Kotlin_formatClassAndFunctionStructure \/ Kotlin_formatFunctionsAndLambdas
  \/ Kotlin_formatWhenExpressions \/ Kotlin_formatChainedCalls
  \/ Kotlin_formatTypeAnnotations \/ Kotlin_applyIndentation \/ Kotlin_applyBraceStyle
  \/ Kotlin_applySpacingRules \/ Kotlin_finalCleanup
  \/ Json_parse \/ Json_sortKeys \/ Json_quoteStyle \/ Json_formatJson \/ Json_finalCleanup
  \/ Sql_normalizeWhitespace \/ Sql_applyKeywordCase \/ Sql_applyIdentifierCase
  \/ Sql_formatSelectStatements \/ Sql_formatInsertStatements
  \/ Sql_formatUpdateDeleteStatements \/ Sql_formatJoinStatements
  \/ Sql_formatWhereClause \/ Sql_formatFunctionCalls \/ Sql_formatSubqueries
  \/ Sql_adjustCommaPosition \/ Sql_applyIndentation \/ Sql_finalCleanup
  \/ FormatAgain \/ FormatReindented

Spec == Init /\ [][Next]_vars

----------------------------------------------------------------------------
(* Properties of the formatter calls *)

\* A call has returned: format ("done") or formatCode itself ("returned").
Returned == pc \in {"done", "returned"}

\* C1: whenever format or formatCode returns a non-empty errors list, the
\* returned formattedCode is the input text unchanged and changedLines is 0.
C1_ErrorsReturnInput ==
  (Returned /\ result.errors # <<>>) =>
    (result.formattedCode = input /\ result.changedLines = 0)

\* C1 happens: a call fails after a stage has already run.
C1_Witness ==
  /\ pc = "done"
  /\ result.errors # <<>>
  /\ stages # <<>>
  /\ input # <<>>

\* C3: JsonFormatter.format on a text JSON.parse rejects returns at once, with
\* an error, the original text, changedLines 0 and no warning; key sorting,
\* the quote-style check, layout and final cleanup never run in that call.
C3_DecodeFailureIsImmediate ==
  (lang = "json" /\ ~JsonParse(input).ok) =>
    /\ pc \in {"formatCode", "returned", "format", "done"}
    /\ stages = <<>>
    /\ pc = "done" => /\ result.errors # <<>>
                      /\ result.formattedCode = input
                      /\ result.changedLines = 0
                      /\ result.warnings = <<>>

\* C3 happens: a rejected text under a convention that sorts keys and has the
\* quote style the formatter would warn about.
C3_Witness ==
  /\ lang = "json"
  /\ pc = "done"
  /\ input # <<>>
  /\ ~JsonParse(input).ok
  /\ conv.sortKeys
  /\ conv.quoteStyle = "single"

\* C4 as stated: formatCode with a selector outside the supported languages
\* returns a non-empty errors list and runs no stage, for every input text,
\* empty and whitespace-only text included.
C4_UnsupportedAlwaysAnError ==
  (lang \notin {"java", "json", "javascript", "kotlin", "sql"}) =>
    /\ pc \in {"formatCode", "returned"}
    /\ stages = <<>>
    /\ pc = "returned" => result.errors # <<>>

\* C4 amended: formatCode with a selector outside the supported languages runs
\* no stage; it returns a non-empty errors list when the input has a character
\* that is not whitespace, and for an empty or whitespace-only input it returns
\* the empty-input warning with an empty errors list.
C4_UnsupportedUnlessEmpty ==
  (lang \notin {"java", "json", "javascript", "kotlin", "sql"}) =>
    /\ pc \in {"formatCode", "returned"}
    /\ stages = <<>>
    /\ pc = "returned" =>
         /\ result.formattedCode = input
         /\ result.changedLines = 0
         /\ IF Trim(input) = <<>>
            THEN result.errors = <<>> /\ result.warnings # <<>>
            ELSE result.errors # <<>> /\ result.warnings = <<>>

\* C4 happens: an unsupported selector with a text that is not blank.
C4_Witness ==
  /\ lang = "python"
  /\ pc = "returned"
  /\ Trim(input) # <<>>
  /\ result.errors # <<>>

\* C5: whenever a line of the formatted output of the Java, JavaScript or
\* Kotlin pipeline is longer than maxLineLength, the result carries a
\* line-length warning, no error, and the formatted text.
C5_LongLineWarned ==
  (/\ pc = "done"
   /\ lang \in {"java", "javascript", "kotlin"}
   /\ stages # <<>>
   /\ stages[Len(stages)] = "finalCleanup"
   /\ LongLines(cur, conv) # {}) =>
    /\ result.warnings # <<>>
    /\ result.errors = <<>>
    /\ result.formattedCode = cur

\* C6: formatting is idempotent: format of format(x).formattedCode under the
\* same convention returns changedLines = 0.
C6_Idempotent ==
  (pc = "done" /\ pass = "again") => result.changedLines = 0

\* C7: for every text x that decodes as JSON and every convention, the
\* formattedCode of JsonFormatter.format(x) decodes, and to the value of x.
C7_DecodeRoundTrip ==
  (pc = "done" /\ lang = "json" /\ JsonParse(input).ok) =>
    /\ JsonParse(result.formattedCode).ok
    /\ SameValue(JsonParse(result.formattedCode).v, JsonParse(input).v)

\* C8: two inputs that differ only in the leading whitespace of their lines
\* get the same formattedCode from the Java, JavaScript and Kotlin pipelines
\* (stated for the calls in which the whole pipeline ran, both times).
C8_IndentationPurity ==
  (/\ pc = "done"
   /\ pass = "reindented"
   /\ lang \in {"java", "javascript", "kotlin"}
   /\ SameButLeadingWhitespace(input, prev.input)
   /\ result.errors = <<>>
   /\ prev.result.errors = <<>>) =>
    result.formattedCode = prev.result.formattedCode

----------------------------------------------------------------------------
(* AdvancedSorter: the generic line sorter *)

\* A number of the sorter is m / 10^e, with no trailing zero in the fraction.
Num(m, e) == [m |-> m, e |-> e]

RECURSIVE Pow10(_)
Pow10(e) == IF e = 0 THEN 1 ELSE 10 * Pow10(e - 1)

RECURSIVE Normal(_)
Normal(n) == IF n.e > 0 /\ n.m % 10 = 0 THEN Normal(Num(n.m \div 10, n.e - 1)) ELSE n

\* the sign of a - b
NumCompare(a, b) ==
  LET x == a.m * Pow10(b.e)
      y == b.m * Pow10(a.e)
  IN IF x < y THEN -1 ELSE IF x > y THEN 1 ELSE 0

RECURSIVE PadZeros(_, _)
PadZeros(ds, n) == IF Len(ds) >= n THEN ds ELSE PadZeros(<<"0">> \o ds, n)

\* String(n), for the numbers that print without an exponent
NumToString(n) ==
  LET abs == IF n.m < 0 THEN -n.m ELSE n.m
      whole == DigitsOfNat(abs \div Pow10(n.e))
      frac == PadZeros(DigitsOfNat(abs % Pow10(n.e)), n.e)
  IN (IF n.m < 0 THEN <<"-">> ELSE <<>>) \o whole
       \o (IF n.e = 0 THEN <<>> ELSE <<".">> \o frac)

\* parseFloat of a text of digits, "." and "-": an optional sign, digits, an
\* optional fraction; whatever follows is ignored; [nan |-> TRUE] without a digit.
ParseFloat(s) ==
  LET neg == s # <<>> /\ s[1] = "-"
      b == IF neg THEN 2 ELSE 1
      e == DigitRun(s, b)
      dot == e <= Len(s) /\ s[e] = "."
      f == IF dot THEN DigitRun(s, e + 1) ELSE e
      whole == SubSeq(s, b, e - 1)
      frac == IF dot THEN SubSeq(s, e + 1, f - 1) ELSE <<>>
      abs == NatOf(whole \o frac)
  IN IF whole = <<>> /\ frac = <<>> THEN [nan |-> TRUE, n |-> Num(0, 0)]
     ELSE [nan |-> FALSE, n |-> Normal(Num(IF neg THEN -abs ELSE abs, Len(frac)))]

\* AdvancedSorter.parseNumber: text.replace(/[^\d.-]/g, ''), parseFloat, NaN is 0
SorterParseNumber(text) ==
  LET cleaned == SelectSeq(text, LAMBDA c : c \in Digits \cup {".", "-"})
      num == ParseFloat(cleaned)
  IN IF num.nan THEN Num(0, 0) ELSE num.n

CommentPatterns ==
  <<Cat(<<Bol, Star(ReS), Lit(<<"/", "/">>)>>),
    Cat(<<Bol, Star(ReS), Lit(<<"/", "*">>)>>),
    Cat(<<Bol, Star(ReS), Chr("*")>>),
    Cat(<<Bol, Star(ReS), Lit(<<"*", "/">>)>>),
    Cat(<<Bol, Star(ReS), Chr("#")>>),
    Cat(<<Bol, Star(ReS), Lit(<<"<", "!", "-", "-">>)>>),
    Cat(<<Bol, Star(ReS), Lit(<<"-", "-", ">">>)>>),
    Cat(<<Bol, Star(ReS), Lit(<<"/", "*", "*">>)>>),
    Cat(<<BolM, Star(ReS), Chr("*")>>)>>

IsCommentLine(line) == \E k \in 1..Len(CommentPatterns) : ReTest(CommentPatterns[k], line)

\* A sort value is a string or a number.
StringValue(s) == [t |-> "string", v |-> s]
NumberValue(n) == [t |-> "number", v |-> n]

\* String(value)
StringOf(value) == IF value.t = "number" THEN NumToString(value.v) ELSE value.v

\* One element of parseLines' result. The dataType values of the model are
\* 'number' and 'string' (which takes the default branch of the switch).
ParseLine(line, options) ==
  LET trimmed == Trim(line)
      isComment == IsCommentLine(trimmed)
      isEmptyLine == Len(trimmed) = 0
  IN [original |-> line,
      content |-> trimmed,
      isComment |-> isComment,
      isEmptyLine |-> isEmptyLine,
      sortValue |->
        IF ~isComment /\ ~isEmptyLine
        THEN CASE options.dataType = "number" -> NumberValue(SorterParseNumber(trimmed))
               [] options.dataType = "string" -> StringValue(trimmed)
        ELSE StringValue(line)]

ParseLines(text, options) ==
  LET lines == SplitLines(text)
  IN [k \in 1..Len(lines) |-> ParseLine(lines[k], options)]

\* The collation order of the characters that decide a comparison of the
\* model: digits, then lower-case letters.
CollationOrder == DigitOrder \o LowerLetters
CollationKey(c) == CHOOSE k \in 1..Len(CollationOrder) : CollationOrder[k] = c

RECURSIVE LocaleCompareFrom(_, _, _, _, _)
\* String.prototype.localeCompare, the first difference being between digits
\* and lower-case letters; with numeric, runs of digits compare by their value.
LocaleCompareFrom(a, b, i, j, numeric) ==
  IF i > Len(a) /\ j > Len(b) THEN 0
  ELSE IF i > Len(a) THEN -1
  ELSE IF j > Len(b) THEN 1
  ELSE IF numeric /\ a[i] \in Digits /\ b[j] \in Digits
  THEN LET ie == DigitRun(a, i)
           je == DigitRun(b, j)
           x == NatOf(SubSeq(a, i, ie - 1))
           y == NatOf(SubSeq(b, j, je - 1))
       IN IF x < y THEN -1 ELSE IF x > y THEN 1
          ELSE LocaleCompareFrom(a, b, ie, je, numeric)
  ELSE IF a[i] = b[j] THEN LocaleCompareFrom(a, b, i + 1, j + 1, numeric)
  ELSE IF CollationKey(a[i]) < CollationKey(b[j]) THEN -1 ELSE 1

LocaleCompare(a, b, numeric) == LocaleCompareFrom(a, b, 1, 1, numeric)

\* new RegExp(pattern) for the patterns of the model: "^a" compiles, "(" is a
\* SyntaxError.
NewRegExp(pattern) ==
  CASE pattern = <<"^", "a">> -> [ok |-> TRUE, re |-> Cat(<<Bol, Chr("a")>>)]
    [] pattern = <<"(">> -> [ok |-> FALSE, re |-> Cat(<<>>)]

\* A Date: valid is FALSE for an Invalid Date (getTime() is NaN); t is
\* getTime() in days.
InvalidDate == [valid |-> FALSE, t |-> 0]
DateAt(t) == [valid |-> TRUE, t |-> t]

IsLeapYear(y) == (y % 4 = 0 /\ y % 100 # 0) \/ y % 400 = 0

DaysInMonth(y, m) ==
  IF m = 2 THEN (IF IsLeapYear(y) THEN 29 ELSE 28)
  ELSE IF m \in {4, 6, 9, 11} THEN 30 ELSE 31

\* the days from 1970-01-01 to y-m-d
DaysFromCivil(y, m, d) ==
  LET yy == IF m <= 2 THEN y - 1 ELSE y
      era == yy \div 400
      yoe == yy - era * 400
      doy == (153 * (IF m > 2 THEN m - 3 ELSE m + 9) + 2) \div 5 + d - 1
      doe == yoe * 365 + yoe \div 4 - yoe \div 100 + doy
  IN era * 146097 + doe - 719468

\* new Date(text) for the texts of the model: the date-only form YYYY-MM-DD of
\* the Date Time String Format is that day (UTC); such a text with a month
\* outside 01..12 or a day outside the month's days, and every text that is
\* not in that form, is an Invalid Date. (The texts of the model stay away
\* from the days 29..31 of the shorter months and from the other notations
\* that engines read each in their own way.)
NewDate(text) ==
  LET isForm == /\ Len(text) = 10
                /\ text[5] = "-" /\ text[8] = "-"
                /\ \A k \in {1, 2, 3, 4, 6, 7, 9, 10} : text[k] \in Digits
      y == NatOf(SubSeq(text, 1, 4))
      m == NatOf(SubSeq(text, 6, 7))
      d == NatOf(SubSeq(text, 9, 10))
  IN IF isForm /\ m \in 1..12 /\ d >= 1 /\ d <= DaysInMonth(y, m)
     THEN DateAt(DaysFromCivil(y, m, d))
     ELSE InvalidDate

\* the sign of n
Sign(n) == IF n < 0 THEN -1 ELSE IF n > 0 THEN 1 ELSE 0

\* AdvancedSorter.parseDate
SorterParseDate(text) ==
  IF NewDate(text).valid THEN NewDate(text) ELSE DateAt(0)

\* The comparator of sortLines raises where new RegExp does.
ComparatorRaises(options) ==
  /\ options.sortType = "custom"
  /\ options.customPattern # <<>>
  /\ ~NewRegExp(options.customPattern).ok

\* The sign of `comparison` before the sort order is applied.
Comparison(a, b, options) ==
  LET valueA == a.sortValue
      valueB == b.sortValue
  IN CASE options.sortType = "numerical" ->
            LET numA == IF valueA.t = "number" THEN valueA.v
                        ELSE SorterParseNumber(StringOf(valueA))
                numB == IF valueB.t = "number" THEN valueB.v
                        ELSE SorterParseNumber(StringOf(valueB))
            IN NumCompare(numA, numB)
       [] options.sortType = "date" ->
            LET dateA == IF valueA.t = "date" THEN valueA.v
                         ELSE SorterParseDate(StringOf(valueA))
                dateB == IF valueB.t = "date" THEN valueB.v
                         ELSE SorterParseDate(StringOf(valueB))
            IN Sign(dateA.t - dateB.t)
       [] options.sortType = "length" ->
            LET la == Len(StringOf(valueA))
                lb == Len(StringOf(valueB))
            IN IF la < lb THEN -1 ELSE IF la > lb THEN 1 ELSE 0
       [] options.sortType = "custom" ->
            IF options.customPattern # <<>>
            THEN LET regexA == ReTest(NewRegExp(options.customPattern).re, StringOf(valueA))
                     regexB == ReTest(NewRegExp(options.customPattern).re, StringOf(valueB))
                 IN IF regexA /\ ~regexB THEN -1
                    ELSE IF ~regexA /\ regexB THEN 1
                    ELSE LocaleCompare(StringOf(valueA), StringOf(valueB), FALSE)
            ELSE LocaleCompare(StringOf(valueA), StringOf(valueB), FALSE)
       [] options.sortType = "alphabetical" ->
            LocaleCompare(StringOf(valueA), StringOf(valueB), TRUE)

\* A comparator that never reads sortOrder
CompareAscending(a, b, options) == Comparison(a, b, options)

\* What the comparator returns.
Compare(a, b, options) ==
  IF options.sortOrder = "desc" THEN -Comparison(a, b, options)
  ELSE Comparison(a, b, options)

RECURSIVE InsertLine(_, _, _)
InsertLine(sorted, x, options) ==
  IF sorted = <<>> THEN <<x>>
  ELSE IF Compare(sorted[Len(sorted)], x, options) <= 0 THEN Append(sorted, x)
  ELSE Append(InsertLine(SubSeq(sorted, 1, Len(sorted) - 1), x, options), sorted[Len(sorted)])

RECURSIVE SortContent(_, _)
\* Array.prototype.sort with the comparator: a stable sort
SortContent(ls, options) ==
  IF ls = <<>> THEN <<>>
  ELSE InsertLine(SortContent(SubSeq(ls, 1, Len(ls) - 1), options), ls[Len(ls)], options)

\* The three lists of sortLines' classification.
Comments(parsedLines, options) ==
  SelectSeq(parsedLines, LAMBDA line : line.isComment /\ options.preserveComments)
EmptyLines(parsedLines, options) ==
  SelectSeq(parsedLines, LAMBDA line :
    /\ ~(line.isComment /\ options.preserveComments)
    /\ line.isEmptyLine /\ ~options.removeEmptyLines)
ContentLines(parsedLines, options) ==
  SelectSeq(parsedLines, LAMBDA line :
    /\ ~(line.isComment /\ options.preserveComments)
    /\ ~(line.isEmptyLine /\ ~options.removeEmptyLines)
    /\ ~line.isComment /\ ~line.isEmptyLine)

\* The comparator runs as soon as there are two content lines.
SortLinesRaises(parsedLines, options) ==
  Len(ContentLines(parsedLines, options)) >= 2 /\ ComparatorRaises(options)

\* A sortLines that appends the blank lines before the content lines.
SortLinesBlanksFirst(parsedLines, options) ==
  (IF options.preserveComments THEN Comments(parsedLines, options) ELSE <<>>)
    \o (IF ~options.removeEmptyLines THEN EmptyLines(parsedLines, options) ELSE <<>>)
    \o SortContent(ContentLines(parsedLines, options), options)

\* The value sortLines returns when its comparator does not raise.
SortLines(parsedLines, options) ==
  (IF options.preserveComments THEN Comments(parsedLines, options) ELSE <<>>)
    \o SortContent(ContentLines(parsedLines, options), options)
    \o (IF ~options.removeEmptyLines THEN EmptyLines(parsedLines, options) ELSE <<>>)

FormatOutput(sortedLines, originalIndentation) ==
  JoinLines([k \in 1..Len(sortedLines) |->
               IF originalIndentation THEN sortedLines[k].original
               ELSE sortedLines[k].content])

----------------------------------------------------------------------------
(* The line sorter as the page drives it: parseLines, sortLines, formatOutput *)

\* A text to sort has at most MaxSortLines lines.
MaxSortLines == 4

SortVocabulary ==
  {<<"b">>,
   <<"a", "1", "0">>,
   <<SP, "a", "2">>,
   <<"#", SP, "c">>,
   <<"/", "/", "d">>,
   <<>>,
   <<SP>>}

SortTexts == {JoinLines(d) : d \in Docs(SortVocabulary, MaxSortLines)}

SortOptions(sortType, sortOrder, dataType, customPattern, preserveComments, removeEmptyLines) ==
  [sortType |-> sortType, sortOrder |-> sortOrder, dataType |-> dataType,
   customPattern |-> customPattern, preserveComments |-> preserveComments,
   removeEmptyLines |-> removeEmptyLines]

SortingOptions ==
  {SortOptions("alphabetical", "asc", "string", <<>>, TRUE, FALSE),
   SortOptions("alphabetical", "desc", "number", <<>>, TRUE, FALSE),
   SortOptions("numerical", "asc", "number", <<>>, TRUE, FALSE),
   SortOptions("numerical", "desc", "string", <<>>, FALSE, TRUE),
   SortOptions("length", "desc", "string", <<>>, TRUE, FALSE),
   SortOptions("custom", "asc", "string", <<"^", "a">>, TRUE, FALSE),
   SortOptions("custom", "asc", "string", <<"(">>, TRUE, FALSE),
   SortOptions("custom", "desc", "string", <<>>, TRUE, TRUE),
   SortOptions("alphabetical", "asc", "string", <<>>, FALSE, FALSE)}

InitSort ==
  /\ lang = "lines"
  /\ input \in SortTexts
  /\ conv \in SortingOptions
  /\ pc = "parseLines"
  /\ cur = <<>>
  /\ warnings = <<>>
  /\ console = <<>>
  /\ result = NoResult
  /\ stages = <<>>
  /\ pass = "first"
  /\ prev = <<>>

\* AdvancedSorter.parseLines(result, sortingOpts)
Sorter_parseLines ==
  /\ pc = "parseLines"
  /\ cur' = ParseLines(input, conv)
  /\ pc' = "sortLines"
  /\ stages' = Append(stages, "parseLines")
  /\ UNCHANGED <<lang, input, conv, warnings, console, result, pass, prev>>

\* AdvancedSorter.sortLines(parsedLines, sortingOpts): the sorted lines, or the
\* comparator's exception, which sortLines does not catch. prev keeps the
\* parsed lines.
Sorter_sortLines ==
  /\ pc = "sortLines"
  /\ stages' = Append(stages, "sortLines")
  /\ prev' = cur
  /\ IF SortLinesRaises(cur, conv)
     THEN /\ pc' = "raised"
          /\ result' = [pending |-> FALSE, raised |-> TRUE, output |-> <<>>]
          /\ cur' = cur
     ELSE /\ pc' = "formatOutput"
          /\ cur' = SortLines(cur, conv)
          /\ result' = result
  /\ UNCHANGED <<lang, input, conv, warnings, console, pass>>

\* AdvancedSorter.formatOutput(sortedLines, !options.trimWhitespace)
Sorter_formatOutput ==
  /\ pc = "formatOutput"
  /\ \E originalIndentation \in BOOLEAN :
       result' = [pending |-> FALSE, raised |-> FALSE,
                  output |-> FormatOutput(cur, originalIndentation)]
  /\ pc' = "sorted"
  /\ stages' = Append(stages, "formatOutput")
  /\ UNCHANGED <<lang, input, conv, cur, warnings, console, pass, prev>>

NextSort ==
  \/ Sorter_parseLines
  \/ Sorter_sortLines
  \/ Sorter_formatOutput

SpecSort == InitSort /\ [][NextSort]_vars

\* sortLines has returned: cur is its result, prev its argument.
SortLinesReturned == pc \in {"formatOutput", "sorted"}

\* C2: no exception crosses a public entry point; in particular parseLines
\* followed by sortLines returns a value for every text and every options
\* value, an invalid customPattern included.
C2_SortLinesNeverRaises == pc # "raised"

\* the number of positions of ls that hold x
Occurrences(ls, x) == Cardinality({k \in 1..Len(ls) : ls[k] = x})

\* C10: with preserveComments true and removeEmptyLines false, the result of
\* sortLines is the comment lines in their original order, then the content
\* lines (all of them, each as often as in the argument) in the order of the
\* comparator, then the blank lines in their original order.
C10_SortLinesLayout ==
  (SortLinesReturned /\ conv.preserveComments /\ ~conv.removeEmptyLines) =>
    LET comments == SelectSeq(prev, LAMBDA line : line.isComment)
        blanks == SelectSeq(prev, LAMBDA line : line.isEmptyLine)
        content == SelectSeq(prev, LAMBDA line : ~line.isComment /\ ~line.isEmptyLine)
        nc == Len(comments)
        nk == Len(content)
        middle == SubSeq(cur, nc + 1, nc + nk)
    IN /\ Len(cur) = Len(prev)
       /\ SubSeq(cur, 1, nc) = comments
       /\ SubSeq(cur, nc + nk + 1, Len(cur)) = blanks
       /\ \A k \in 1..nk : Occurrences(middle, content[k]) = Occurrences(content, content[k])
       /\ \A k \in 1..(nk - 1) : Compare(middle[k], middle[k + 1], conv) <= 0

\* A blank line and a comment stood between unordered content lines.
C10_Witness ==
  /\ SortLinesReturned /\ conv.preserveComments /\ ~conv.removeEmptyLines
  /\ Len(prev) = 4
  /\ ~prev[1].isComment /\ ~prev[1].isEmptyLine
  /\ prev[2].isEmptyLine
  /\ prev[3].isComment
  /\ ~prev[4].isComment /\ ~prev[4].isEmptyLine
  /\ Compare(prev[4], prev[1], conv) < 0
  /\ cur = <<prev[3], prev[4], prev[1], prev[2]>>

----------------------------------------------------------------------------
(* LanguageSpecificSorter: the region sorters *)

\* A line of the document carries its position in the input, n, so that the
\* output can be told apart from the input line by line.
Numbered(lines) == [k \in 1..Len(lines) |-> [n |-> k, line |-> lines[k]]]
TextOf(entries) == JoinLines([k \in 1..Len(entries) |-> entries[k].line])
Positions(entries) == {entries[k].n : k \in 1..Len(entries)}

IsBlank(entry) == Trim(entry.line) = <<>>
NotBlank(entry) == Trim(entry.line) # <<>>

\* Array.prototype.sort with a comparator that is a total preorder: a stable
\* sort, each element placed after those that come before it.
ComesFirst(comparison, j, k) == comparison < 0 \/ (comparison = 0 /\ j < k)

SortBy(ls, Cmp(_, _)) ==
  LET before(j, k) == ComesFirst(Cmp(ls[j], ls[k]), j, k)
      rank(k) == 1 + Cardinality({j \in 1..Len(ls) : j # k /\ before(j, k)})
  IN [p \in 1..Len(ls) |-> ls[CHOOSE k \in 1..Len(ls) : rank(k) = p]]

\* Array.prototype.sort without a comparator, on the lines' texts
DefaultOrder(a, b) ==
  IF StrLess(a.line, b.line) THEN -1 ELSE IF StrLess(b.line, a.line) THEN 1 ELSE 0

W_from == <<"f", "r", "o", "m">>
W_const == <<"c", "o", "n", "s", "t">>
W_require == <<"r", "e", "q", "u", "i", "r", "e">>
Quotes == {"'", DQ}

\* match[1] || match[2] || match[3]
FirstCapture(s, m) ==
  IF Capture(s, m, 1) # <<>> THEN Capture(s, m, 1)
  ELSE IF Capture(s, m, 2) # <<>> THEN Capture(s, m, 2)
  ELSE Capture(s, m, 3)

\* match ? (match[1] || match[2] || match[3]) : ''
FirstCaptureOr(s, m) == IF m.found THEN FirstCapture(s, m) ELSE <<>>

ExtractImportPath(line) ==
  LET quoted(k) == Cat(<<In(Quotes), Grp(k, Plus(NotIn(Quotes))), In(Quotes)>>)
      re == Alt(<<Cat(<<Lit(W_from), Plus(ReS), quoted(1)>>),
                  Cat(<<Lit(W_import), Plus(ReS), quoted(2)>>),
                  Cat(<<Lit(W_require), Chr("("), quoted(3), Chr(")")>>)>>)
  IN FirstCaptureOr(line, ReExec(re, line, 1))

IsObjectProperty(line) ==
  LET trimmed == Trim(line)
  IN /\ Includes(trimmed, <<":">>)
     /\ ~StartsWith(trimmed, <<"/", "/">>)
     /\ ~StartsWith(trimmed, <<"/", "*">>)

\* match ? match[k] : ''
CaptureOr(s, m, k) == IF m.found THEN Capture(s, m, k) ELSE <<>>

\* /^\s*(['"]?)([^'":\s]+)\1\s*:/ ; the back reference is spelled out as the
\* three cases of the first group.
ExtractObjectKey(line) ==
  LET key == Grp(2, Plus(NotIn(Quotes \cup {":"} \cup WhiteSpace)))
      re == Cat(<<Bol, Star(ReS),
                  Alt(<<Cat(<<Chr("'"), key, Chr("'")>>),
                        Cat(<<Chr(DQ), key, Chr(DQ)>>),
                        key>>),
                  Star(ReS), Chr(":")>>)
  IN CaptureOr(line, ReExec(re, line, 1), 2)

\* relative paths after the others, then by path
PathOrder(aPath, bPath) ==
  IF StartsWith(aPath, <<".">>) /\ ~StartsWith(bPath, <<".">>) THEN 1
  ELSE IF ~StartsWith(aPath, <<".">>) /\ StartsWith(bPath, <<".">>) THEN -1
  ELSE LocaleCompare(aPath, bPath, FALSE)

\* The comparator of an import section that is followed by another line.
JsImportOrder(a, b) == PathOrder(ExtractImportPath(a.line), ExtractImportPath(b.line))

\* The comparator of an import section that ends the document.
JsLastImportOrder(a, b) ==
  LocaleCompare(ExtractImportPath(a.line), ExtractImportPath(b.line), FALSE)

JsKeyOrder(a, b) ==
  LocaleCompare(ExtractObjectKey(a.line), ExtractObjectKey(b.line), FALSE)

\* The loop variables of a region sorter; region collects the positions of the
\* lines that were held back in the current section.
SorterStart ==
  [result |-> <<>>, currentSection |-> <<>>, inSection |-> FALSE,
   inObjectLiteral |-> FALSE, braceCount |-> 0, region |-> {}]

Hold(st, entry) ==
  [st EXCEPT !.currentSection = Append(@, entry), !.region = @ \cup {entry.n}]

IsJsImport(trimmed, options) ==
  /\ options.sortImports
  /\ \/ StartsWith(trimmed, W_import \o <<SP>>)
     \/ /\ StartsWith(trimmed, W_const \o <<SP>>)
        /\ Includes(trimmed, W_require \o <<"(">>)

\* An import section ends at the first line that is neither an import nor blank.
JsAfterImports(st) ==
  IF st.inSection
  THEN [st EXCEPT !.result = @ \o SortBy(SelectSeq(st.currentSection, NotBlank), JsImportOrder)
                               \o SelectSeq(st.currentSection, IsBlank),
                  !.currentSection = <<>>,
                  !.inSection = FALSE]
  ELSE st

\* braceCount += the number of '{' ; inObjectLiteral when it becomes 1
JsOpened(st, trimmed) ==
  IF Includes(trimmed, <<"{">>)
  THEN LET count == st.braceCount + CountChar(trimmed, "{")
       IN [st EXCEPT !.braceCount = count,
                     !.inObjectLiteral = IF count = 1 THEN TRUE ELSE @]
  ELSE st

\* properties are held back; any other line flushes the sorted properties
JsPlaced(st, entry, trimmed) ==
  IF st.inObjectLiteral /\ IsObjectProperty(trimmed) THEN Hold(st, entry)
  ELSE IF st.inObjectLiteral /\ Len(st.currentSection) > 0
  THEN [st EXCEPT !.result = @ \o SortBy(st.currentSection, JsKeyOrder) \o <<entry>>,
                  !.currentSection = <<>>]
  ELSE [st EXCEPT !.result = Append(@, entry)]

\* braceCount -= the number of '}' ; inObjectLiteral ends when it becomes 0
JsClosed(st, trimmed) ==
  IF Includes(trimmed, <<"}">>)
  THEN LET count == st.braceCount - CountChar(trimmed, "}")
       IN [st EXCEPT !.braceCount = count,
                     !.inObjectLiteral = IF count = 0 THEN FALSE ELSE @]
  ELSE st

JsTrimmedLine(st, entry, options, trimmed) ==
  IF IsJsImport(trimmed, options)
  THEN (IF ~st.inSection
        THEN Hold([st EXCEPT !.result = @ \o st.currentSection,
                             !.currentSection = <<>>,
                             !.inSection = TRUE], entry)
        ELSE Hold(st, entry))
  ELSE IF st.inSection /\ trimmed = <<>> THEN Hold(st, entry)
  ELSE JsClosed(JsPlaced(JsOpened(JsAfterImports(st), trimmed), entry, trimmed), trimmed)

\* One iteration of sortJavaScript's loop.
JsLine(st, entry, options) == JsTrimmedLine(st, entry, options, Trim(entry.line))

RECURSIVE JsLoop(_, _, _, _)
JsLoop(entries, i, st, options) ==
  IF i > Len(entries) THEN st
  ELSE JsLoop(entries, i + 1, JsLine(st, entries[i], options), options)

\* LanguageSpecificSorter.sortJavaScript: the lines of the result and the
\* positions that were part of a section.
JsAfterLoop(st, options) ==
  LET rest == IF Len(st.currentSection) > 0
              THEN (IF st.inSection /\ options.sortImports
                    THEN SortBy(SelectSeq(st.currentSection, NotBlank), JsLastImportOrder)
                    ELSE st.currentSection)
              ELSE <<>>
  IN [lines |-> st.result \o rest, region |-> st.region]

SortJavaScript(code, options) ==
  JsAfterLoop(JsLoop(Numbered(SplitLines(code)), 1, SorterStart, options), options)

\* (match[1] || match[2]).split('.')[0] of /from\s+(\S+)|import\s+(\S+)/
\* name.split('.')[0]
FirstPart(name) == SplitOn(name, ".")[1]

\* match ? (match[1] || match[2]).split('.')[0] : ''
PythonModuleOf(line, m) ==
  IF ~m.found THEN <<>>
  ELSE IF Capture(line, m, 1) # <<>> THEN FirstPart(Capture(line, m, 1))
  ELSE FirstPart(Capture(line, m, 2))

ExtractPythonModule(line) ==
  LET re == Alt(<<Cat(<<Lit(W_from), Plus(ReS), Grp(1, Plus(ReNotS))>>),
                  Cat(<<Lit(W_import), Plus(ReS), Grp(2, Plus(ReNotS))>>)>>)
  IN PythonModuleOf(line, ReExec(re, line, 1))

StdlibModules ==
  {<<"o", "s">>, <<"s", "y", "s">>, <<"j", "s", "o", "n">>,
   <<"d", "a", "t", "e", "t", "i", "m", "e">>,
   <<"c", "o", "l", "l", "e", "c", "t", "i", "o", "n", "s">>,
   <<"i", "t", "e", "r", "t", "o", "o", "l", "s">>,
   <<"f", "u", "n", "c", "t", "o", "o", "l", "s">>,
   <<"o", "p", "e", "r", "a", "t", "o", "r">>, <<"r", "e">>,
   <<"m", "a", "t", "h">>, <<"r", "a", "n", "d", "o", "m">>,
   <<"t", "y", "p", "i", "n", "g">>}

IsPythonStdlib(module) == module \in StdlibModules

\* import before from; the standard library first; then by module
ModuleOrder(aType, bType, aModule, bModule) ==
  IF aType # bType THEN aType - bType
  ELSE IF IsPythonStdlib(aModule) /\ ~IsPythonStdlib(bModule) THEN -1
  ELSE IF ~IsPythonStdlib(aModule) /\ IsPythonStdlib(bModule) THEN 1
  ELSE LocaleCompare(aModule, bModule, FALSE)

PythonImportOrder(a, b) ==
  ModuleOrder(IF StartsWith(Trim(a.line), W_from \o <<SP>>) THEN 1 ELSE 0,
              IF StartsWith(Trim(b.line), W_from \o <<SP>>) THEN 1 ELSE 0,
              ExtractPythonModule(a.line), ExtractPythonModule(b.line))

\* One iteration of sortPython's loop.
PythonLine(st, entry, options) ==
  LET trimmed == Trim(entry.line)
      isImport == /\ options.sortImports
                  /\ \/ StartsWith(trimmed, W_import \o <<SP>>)
                     \/ StartsWith(trimmed, W_from \o <<SP>>)
  IN IF isImport
     THEN (IF ~st.inSection
           THEN Hold([st EXCEPT !.result = @ \o st.currentSection,
                                !.currentSection = <<>>,
                                !.inSection = TRUE], entry)
           ELSE Hold(st, entry))
     ELSE IF st.inSection /\ trimmed = <<>> THEN Hold(st, entry)
     ELSE IF st.inSection
     THEN [st EXCEPT !.result = @ \o SortBy(SelectSeq(st.currentSection, NotBlank), PythonImportOrder)
                                  \o SelectSeq(st.currentSection, IsBlank)
                                  \o <<entry>>,
                     !.currentSection = <<>>,
                     !.inSection = FALSE]
     ELSE [st EXCEPT !.result = Append(@, entry)]

RECURSIVE PythonLoop(_, _, _, _)
PythonLoop(entries, i, st, options) ==
  IF i > Len(entries) THEN st
  ELSE PythonLoop(entries, i + 1, PythonLine(st, entries[i], options), options)

\* LanguageSpecificSorter.sortPython
PythonAfterLoop(st, options) ==
  LET rest == IF Len(st.currentSection) > 0 /\ st.inSection /\ options.sortImports
              THEN SortBy(SelectSeq(st.currentSection, NotBlank), DefaultOrder)
              ELSE <<>>
  IN [lines |-> st.result \o rest, region |-> st.region]

SortPython(code, options) ==
  PythonAfterLoop(PythonLoop(Numbered(SplitLines(code)), 1, SorterStart, options), options)

IsCSSProperty(line) ==
  /\ Includes(line, <<":">>)
  /\ Includes(line, <<";">>)
  /\ ~StartsWith(Trim(line), <<"/", "*">>)

\* /^\s*([^:]+):/, the capture trimmed
ExtractCSSProperty(line) ==
  LET re == Cat(<<Bol, Star(ReS), Grp(1, Plus(NotIn({":"}))), Chr(":")>>)
      m == ReExec(re, line, 1)
  IN IF m.found THEN Trim(Capture(line, m, 1)) ELSE <<>>

CssPropertyOrder(a, b) ==
  LocaleCompare(ExtractCSSProperty(a.line), ExtractCSSProperty(b.line), FALSE)

\* One iteration of sortCSS's loop; currentSection is currentRule and
\* inSection is inRule.
CssLine(st, entry) ==
  LET trimmed == Trim(entry.line)
      opened == IF Includes(trimmed, <<"{">>)
                THEN [st EXCEPT !.braceCount = @ + 1] ELSE st
      placed ==
        IF opened.inSection /\ IsCSSProperty(trimmed) THEN Hold(opened, entry)
        ELSE IF opened.inSection /\ Len(opened.currentSection) > 0
        THEN [opened EXCEPT !.result = @ \o SortBy(opened.currentSection, CssPropertyOrder)
                                         \o <<entry>>,
                            !.currentSection = <<>>]
        ELSE [opened EXCEPT !.result = Append(@, entry)]
      closed ==
        IF Includes(trimmed, <<"}">>)
        THEN [placed EXCEPT !.braceCount = @ - 1,
                            !.inSection = IF placed.braceCount - 1 = 0 THEN FALSE ELSE @]
        ELSE placed
  IN IF Includes(trimmed, <<"{">>) /\ opened.braceCount = 1
     THEN [opened EXCEPT !.inSection = TRUE, !.result = Append(@, entry)]
     ELSE closed

RECURSIVE CssLoop(_, _, _)
CssLoop(entries, i, st) ==
  IF i > Len(entries) THEN st ELSE CssLoop(entries, i + 1, CssLine(st, entries[i]))

\* LanguageSpecificSorter.sortCSS; what is left in currentRule after the last
\* line is not part of the result.
SortCSS(code, options) ==
  IF ~options.sortCSSSProperties
  THEN [lines |-> Numbered(SplitLines(code)), region |-> {}]
  ELSE LET st == CssLoop(Numbered(SplitLines(code)), 1, SorterStart)
       IN [lines |-> st.result, region |-> st.region]

\* a.trim().replace(/,$/, '')
ColumnName(line) == ReplaceFirst(Cat(<<Chr(","), Eol>>), Trim(line), <<>>)

ColumnOrder(a, b) == LocaleCompare(ColumnName(a.line), ColumnName(b.line), FALSE)

ClauseStarts ==
  {<<"F", "R", "O", "M", SP>>, <<"W", "H", "E", "R", "E", SP>>,
   <<"G", "R", "O", "U", "P", SP, "B", "Y", SP>>,
   <<"O", "R", "D", "E", "R", SP, "B", "Y", SP>>}

\* One iteration of sortSQL's loop; currentSection is currentClause and
\* inSection is inSelectClause. The region is the columns that are sorted.
SqlLine(st, entry) ==
  LET trimmed == ToUpperCase(Trim(entry.line))
      columns == Tail(st.currentSection)
  IN IF StartsWith(trimmed, <<"S", "E", "L", "E", "C", "T", SP>>)
     THEN [st EXCEPT !.result = @ \o st.currentSection,
                     !.currentSection = <<entry>>,
                     !.inSection = TRUE]
     ELSE IF st.inSection /\ \E w \in ClauseStarts : StartsWith(trimmed, w)
     THEN (IF Len(st.currentSection) > 1
           THEN [st EXCEPT !.result = @ \o <<st.currentSection[1]>> \o SortBy(columns, ColumnOrder),
                           !.region = @ \cup Positions(columns),
                           !.currentSection = <<entry>>,
                           !.inSection = FALSE]
           ELSE [st EXCEPT !.result = @ \o st.currentSection,
                           !.currentSection = <<entry>>,
                           !.inSection = FALSE])
     ELSE [st EXCEPT !.currentSection = Append(@, entry)]

RECURSIVE SqlLoop(_, _, _)
SqlLoop(entries, i, st) ==
  IF i > Len(entries) THEN st ELSE SqlLoop(entries, i + 1, SqlLine(st, entries[i]))

\* LanguageSpecificSorter.sortSQL
SortSQL(code) ==
  LET st == SqlLoop(Numbered(SplitLines(code)), 1, SorterStart)
  IN [lines |-> st.result \o st.currentSection, region |-> st.region]

\* /^[-*+]\s/ and /^\d+\.\s/
ReBullet == Cat(<<Bol, In({"-", "*", "+"}), ReS>>)
ReOrdinal == Cat(<<Bol, Plus(ReD), Chr("."), ReS>>)

\* a.replace(/^[-*+]\s|\d+\.\s/, '').trim()
ListItemText(line) ==
  Trim(ReplaceFirst(Alt(<<ReBullet, Cat(<<Plus(ReD), Chr("."), ReS>>)>>), line, <<>>))

ListItemOrder(a, b) == LocaleCompare(ListItemText(a.line), ListItemText(b.line), FALSE)

\* One iteration of sortMarkdown's loop; inSection is inListSection.
MarkdownLine(st, entry) ==
  LET trimmed == Trim(entry.line)
  IN IF ReTest(ReBullet, trimmed) \/ ReTest(ReOrdinal, trimmed)
     THEN (IF ~st.inSection
           THEN Hold([st EXCEPT !.result = @ \o st.currentSection,
                                !.currentSection = <<>>,
                                !.inSection = TRUE], entry)
           ELSE Hold(st, entry))
     ELSE IF st.inSection /\ trimmed = <<>> THEN Hold(st, entry)
     ELSE IF st.inSection
     THEN [st EXCEPT !.result = @ \o SortBy(SelectSeq(st.currentSection, NotBlank), ListItemOrder)
                                  \o SelectSeq(st.currentSection, IsBlank)
                                  \o <<entry>>,
                     !.currentSection = <<>>,
                     !.inSection = FALSE]
     ELSE [st EXCEPT !.result = Append(@, entry)]

RECURSIVE MarkdownLoop(_, _, _)
MarkdownLoop(entries, i, st) ==
  IF i > Len(entries) THEN st
  ELSE MarkdownLoop(entries, i + 1, MarkdownLine(st, entries[i]))

\* LanguageSpecificSorter.sortMarkdown; a list that ends the document stays in
\* currentSection and is not part of the result.
SortMarkdown(code) ==
  LET st == MarkdownLoop(Numbered(SplitLines(code)), 1, SorterStart)
  IN [lines |-> st.result, region |-> st.region]

----------------------------------------------------------------------------
(* LanguageSpecificSorter.sortJSON and sortingPresets.sortJSObjectProperties *)

\* JSON.stringify(value, null, 2), value being nested `depth` levels deep
RECURSIVE JsonStringify(_, _)
JsonStringify(value, depth) ==
  LET stepback == Repeat(<<SP, SP>>, depth)
      indent == Repeat(<<SP, SP>>, depth + 1)
      separated(partial) == [i \in 1..Len(partial) |->
                               IF i < Len(partial) THEN partial[i] \o <<",">> ELSE partial[i]]
  IN CASE value.t = "null" -> W_null
       [] value.t = "bool" -> IF value.v THEN W_true ELSE W_false
       [] value.t = "num" -> NumberToString(value.v)
       [] value.t = "str" -> StringifyString(value.v)
       [] value.t = "arr" ->
            IF Len(value.v) = 0 THEN <<"[", "]">>
            ELSE <<"[", NL>>
                 \o JoinLines(separated([i \in 1..Len(value.v) |->
                                           indent \o JsonStringify(value.v[i], depth + 1)]))
                 \o <<NL>> \o stepback \o <<"]">>
       [] value.t = "obj" ->
            IF Len(value.v) = 0 THEN <<"{", "}">>
            ELSE <<"{", NL>>
                 \o JoinLines(separated([i \in 1..Len(value.v) |->
                                           indent \o StringifyString(value.v[i].k) \o <<":", SP>>
                                           \o JsonStringify(value.v[i].v, depth + 1)]))
                 \o <<NL>> \o stepback \o <<"}">>

\* LanguageSpecificSorter.sortJSON: [sorted, value, output]; sorted is FALSE
\* where the code is returned as it came (sortJSONKeys off, or JSON.parse
\* raised), value is what sortObjectKeysRecursively returned
SortJSON(code, options) ==
  IF ~options.sortJSONKeys \/ ~JsonParse(code).ok
  THEN [sorted |-> FALSE, value |-> JNull, output |-> code]
  ELSE [sorted |-> TRUE,
        value |-> SortObjectKeys(JsonParse(code).v),
        output |-> JsonStringify(SortObjectKeys(JsonParse(code).v), 0)]

\* sortingPresets.sortJSObjectProperties: every branch pushes the line
SortJSObjectProperties(text) ==
  LET lines == SplitLines(text)
      property == Cat(<<Bol,
                        Alt(<<Cat(<<Chr("'"), Grp(2, Plus(NotIn(Quotes \cup {":"} \cup WhiteSpace))),
                                    Chr("'")>>),
                              Cat(<<Chr(DQ), Grp(2, Plus(NotIn(Quotes \cup {":"} \cup WhiteSpace))),
                                    Chr(DQ)>>),
                              Grp(2, Plus(NotIn(Quotes \cup {":"} \cup WhiteSpace)))>>),
                        Star(ReS), Chr(":")>>)
      pushed(line) ==
        LET trimmed == Trim(line)
        IN IF \/ StartsWith(trimmed, <<"{">>) \/ StartsWith(trimmed, <<"}">>)
              \/ trimmed = <<>> \/ IsCommentLine(trimmed)
           THEN line
           ELSE IF ReTest(property, trimmed) THEN line
           ELSE line
  IN JoinLines([k \in 1..Len(lines) |-> pushed(lines[k])])

----------------------------------------------------------------------------

(* The region sorters, one call each *)

\* A document to sort has at most MaxRegionLines lines.
MaxRegionLines == 3

RegionSorters == {"javascript", "python", "css", "sql", "markdown", "json", "jsobject"}

JsRegionLines ==
  {W_import \o <<SP, "'", "b", "'">>,
   W_import \o <<SP, "'", "a", "'">>,
   <<>>,
   <<"x">>,
   <<"{">>,
   <<SP, "b", ":", SP, "1", ",">>,
   <<SP, "a", ":", SP, "2">>,
   <<"}">>,
   <<"o", SP, "=", SP, "{", SP, "a", ":", SP, "1", SP, "}">>}

PythonRegionLines ==
  {W_import \o <<SP, "b">>,
   W_import \o <<SP, "o", "s">>,
   W_from \o <<SP, "a", SP>> \o W_import \o <<SP, "x">>,
   W_from \o <<SP, "o", "s", SP>> \o W_import \o <<SP, "x">>,
   <<SP>> \o W_import \o <<SP, "a", ".", "c">>,
   <<>>,
   <<"x">>}

CssRegionLines ==
  {<<"a", SP, "{">>,
   <<SP, "c", ":", SP, "d", ";">>,
   <<SP, "b", ":", SP, "e", ";">>,
   <<"}">>,
   <<"x">>,
   <<"a", SP, "{", SP, "b", ":", SP, "c", ";", SP, "}">>}

SqlRegionLines ==
  {<<"s", "e", "l", "e", "c", "t", SP, "x", ",">>,
   <<SP, "b", ",">>,
   <<SP, "a">>,
   <<"F", "R", "O", "M", SP, "t">>,
   <<"y">>}

MarkdownRegionLines ==
  {<<"-", SP, "b">>,
   <<"+", SP, "a">>,
   <<"1", ".", SP, "c">>,
   <<>>,
   <<"x">>,
   <<"-">>}

RegionLinesOf(l) ==
  CASE l = "javascript" -> JsRegionLines
    [] l = "python" -> PythonRegionLines
    [] l = "css" -> CssRegionLines
    [] l = "sql" -> SqlRegionLines
    [] l = "markdown" -> MarkdownRegionLines

\* Documents for sortJSON besides those of the formatter: the scenario of the
\* key regions, nested objects, index keys and the key '__proto__'
JsonKeyDocuments ==
  {<<"{", DQ, "b", DQ, ":", "1", ",", DQ, "a", DQ, ":", "2", "}">>,
   <<"{", DQ, "b", DQ, ":", "{", DQ, "d", DQ, ":", "1", ",", DQ, "c", DQ, ":", "2", "}", ",", DQ, "a", DQ, ":", "[", "{", DQ, "f", DQ, ":", "1", ",", DQ, "e", DQ, ":", "2", "}", ",", "[", "3", ",", "1", ",", "2", "]", "]", "}">>,
   <<"{", DQ, "2", DQ, ":", "1", ",", DQ, "1", "0", DQ, ":", "2", ",", DQ, "b", DQ, ":", "3", "}">>,
   <<"[", "{", DQ, "b", DQ, ":", "[", "]", ",", DQ, "a", DQ, ":", "{", "}", "}", ",", DQ, "z", DQ, ",", DQ, "y", DQ, "]">>,
   <<"{", DQ, "a", DQ, ":", "1", ",", DQ, "_", "_", "p", "r", "o", "t", "o", "_", "_", DQ, ":", "2", "}">>,
   <<"{", DQ, "b", DQ, ":", "1", ",", DQ, "_", "_", "p", "r", "o", "t", "o", "_", "_", DQ, ":", "{", DQ, "a", DQ, ":", "1", "}", "}">>}

\* The lines of an object literal, and the literal of the README example
JsPropertyLines ==
  {<<SP, SP, "n", "a", "m", "e", ":", SP, DQ, "J", DQ, ",">>, <<SP, SP, "a", "g", "e", ":", SP, "3", "0", ",">>, <<SP, SP, "'", "e", "m", "a", "i", "l", "'", ":", SP, DQ, "j", "@", "e", DQ, ",">>, <<SP, SP, DQ, "a", "d", "d", "r", "e", "s", "s", DQ, ":", SP, DQ, "1", SP, "M", DQ>>, <<SP, SP, "/", "/", SP, "i", "d">>, <<>>}

ReadmeObjectLiteral ==
  <<<<"c", "o", "n", "s", "t", SP, "u", "s", "e", "r", SP, "=", SP, "{">>,
    <<SP, SP, "n", "a", "m", "e", ":", SP, DQ, "J", "o", "h", "n", DQ, ",">>, <<SP, SP, "a", "g", "e", ":", SP, "3", "0", ",">>, <<SP, SP, "e", "m", "a", "i", "l", ":", SP, DQ, "j", "o", "h", "n", "@", "e", "x", "a", "m", "p", "l", "e", ".", "c", "o", "m", DQ, ",">>, <<SP, SP, "a", "d", "d", "r", "e", "s", "s", ":", SP, DQ, "1", "2", "3", SP, "M", "a", "i", "n", SP, "S", "t", DQ>>,
    <<"}", ";">>>>

ObjectLiterals ==
  {<<<<"c", "o", "n", "s", "t", SP, "u", "s", "e", "r", SP, "=", SP, "{">>>> \o d \o <<<<"}", ";">>>> : d \in Docs(JsPropertyLines, MaxRegionLines)}
    \cup {ReadmeObjectLiteral}

\* The texts a sorter is called with
RegionTextsOf(l) ==
  CASE l = "json" -> JsonTexts \cup JsonKeyDocuments
    [] l = "jsobject" -> {JoinLines(d) : d \in ObjectLiterals}
    [] OTHER -> {JoinLines(d) : d \in Docs(RegionLinesOf(l), MaxRegionLines)}

\* The options a sorter reads; sortSQL and sortMarkdown take none.
LanguageOptions(sortImports, sortCSSSProperties) ==
  [sortImports |-> sortImports, sortCSSSProperties |-> sortCSSSProperties]

RegionOptionsOf(l) ==
  CASE l \in {"javascript", "python"} -> {LanguageOptions(b, FALSE) : b \in BOOLEAN}
    [] l = "css" -> {LanguageOptions(FALSE, b) : b \in BOOLEAN}
    [] l = "json" -> {[sortJSONKeys |-> b] : b \in BOOLEAN}
    [] OTHER -> {LanguageOptions(FALSE, FALSE)}

InitRegion ==
  /\ lang \in RegionSorters
  /\ input \in RegionTextsOf(lang)
  /\ conv \in RegionOptionsOf(lang)
  /\ pc = "sort"
  /\ cur = <<>>
  /\ warnings = <<>>
  /\ console = <<>>
  /\ result = NoResult
  /\ stages = <<>>
  /\ pass = "first"
  /\ prev = {}

\* A sorter returns: cur is the numbered lines of its result, prev the
\* positions of the input that were part of a region, result the text.
RegionReturn(sorter, sorted) ==
  /\ pc = "sort"
  /\ pc' = "sorted"
  /\ cur' = sorted.lines
  /\ prev' = sorted.region
  /\ result' = [pending |-> FALSE, output |-> TextOf(sorted.lines)]
  /\ stages' = Append(stages, sorter)
  /\ UNCHANGED <<lang, input, conv, warnings, console, pass>>

Region_sortJavaScript ==
  lang = "javascript" /\ RegionReturn("sortJavaScript", SortJavaScript(input, conv))

Region_sortPython ==
  lang = "python" /\ RegionReturn("sortPython", SortPython(input, conv))

Region_sortCSS ==
  lang = "css" /\ RegionReturn("sortCSS", SortCSS(input, conv))

Region_sortSQL ==
  lang = "sql" /\ RegionReturn("sortSQL", SortSQL(input))

Region_sortMarkdown ==
  lang = "markdown" /\ RegionReturn("sortMarkdown", SortMarkdown(input))

\* sortJSON returns: cur holds the value sortObjectKeysRecursively returned,
\* when the keys were sorted
Region_sortJSON ==
  /\ lang = "json"
  /\ pc = "sort"
  /\ pc' = "returned"
  /\ cur' = IF SortJSON(input, conv).sorted THEN <<SortJSON(input, conv).value>> ELSE <<>>
  /\ result' = [pending |-> FALSE, output |-> SortJSON(input, conv).output]
  /\ stages' = Append(stages, "sortJSON")
  /\ UNCHANGED <<lang, input, conv, warnings, console, pass, prev>>

\* the preset returns: cur holds the lines of its result
Region_sortJSObjectProperties ==
  /\ lang = "jsobject"
  /\ pc = "sort"
  /\ pc' = "returned"
  /\ cur' = SplitLines(SortJSObjectProperties(input))
  /\ result' = [pending |-> FALSE, output |-> SortJSObjectProperties(input)]
  /\ stages' = Append(stages, "sortJSObjectProperties")
  /\ UNCHANGED <<lang, input, conv, warnings, console, pass, prev>>

NextRegion ==
  \/ Region_sortJSON
  \/ Region_sortJSObjectProperties
  \/ Region_sortJavaScript
  \/ Region_sortPython
  \/ Region_sortCSS
  \/ Region_sortSQL
  \/ Region_sortMarkdown

SpecRegion == InitRegion /\ [][NextRegion]_vars

\* the place in the result of the input line at position n
PlaceOf(n) == CHOOSE k \in 1..Len(cur) : cur[k].n = n

\* The input line at position n is in the result once, unchanged, after the
\* lines that preceded it in the input and before those that followed it.
KeepsItsPlace(n) ==
  /\ Cardinality({k \in 1..Len(cur) : cur[k].n = n}) = 1
  /\ cur[PlaceOf(n)].line = SplitLines(input)[n]
  /\ \A k \in 1..Len(cur) : (cur[k].n < n) <=> (k < PlaceOf(n))

\* C9: every line outside all detected regions appears in the output
\* byte-identical, in its original order relative to the other outside lines
\* and to the regions.
C9_RegionIsolation ==
  pc = "sorted" =>
    \A n \in 1..Len(SplitLines(input)) : n \notin prev => KeepsItsPlace(n)

----------------------------------------------------------------------------
(* DataTypeSorter: the comparison keys *)

\* [0-9a-f] under the i flag
HexDigits == Digits \cup {"a", "b", "c", "d", "e", "f", "A", "B", "C", "D", "E", "F"}
ReHex == In(HexDigits)

\* The characters of the fourth date pattern (U+B144, U+C6D4, U+C77C), each
\* one character of a text.
YearMark == "U+B144"
MonthMark == "U+C6D4"
DayMark == "U+C77C"

\* parseInt(digits, 16)
RECURSIVE HexValue(_)
HexValue(ds) ==
  IF ds = <<>> THEN 0
  ELSE LET d == ds[Len(ds)]
           v == IF d \in Digits THEN DigitValue(d)
                ELSE 9 + (CHOOSE j \in 1..6 : LowerLetters[j] = LowerOf(d))
       IN HexValue(SubSeq(ds, 1, Len(ds) - 1)) * 16 + v


\* DataTypeSorter.parseNumber
DataParseNumber(text) ==
  LET cleanText == SelectSeq(text, LAMBDA c : c \in Digits \cup {".", "-"})
      num == ParseFloat(cleanText)
  IN IF num.nan THEN Num(0, 0) ELSE num.n

\* datePatterns of DataTypeSorter.parseDate
DatePatterns ==
  <<Cat(<<Rep(ReD, 4, 4), Chr("-"), Rep(ReD, 2, 2), Chr("-"), Rep(ReD, 2, 2)>>),
    Cat(<<Rep(ReD, 2, 2), Chr("/"), Rep(ReD, 2, 2), Chr("/"), Rep(ReD, 4, 4)>>),
    Cat(<<Rep(ReD, 2, 2), Chr("."), Rep(ReD, 2, 2), Chr("."), Rep(ReD, 4, 4)>>),
    Cat(<<Rep(ReD, 4, 4), Chr(YearMark), Star(ReS), Rep(ReD, 1, 2), Chr(MonthMark),
          Star(ReS), Rep(ReD, 1, 2), Chr(DayMark)>>),
    Cat(<<Plus(ReW), Plus(ReS), Rep(ReD, 1, 2), Opt(Chr(",")), Plus(ReS), Rep(ReD, 4, 4)>>)>>

\* DataTypeSorter.parseDate: new Date(text) as it is when a pattern matches
\* (new Date does not raise), and with the epoch for an Invalid Date otherwise.
DataParseDate(text) ==
  IF \E k \in 1..Len(DatePatterns) : ReTest(DatePatterns[k], text)
  THEN NewDate(text)
  ELSE IF NewDate(text).valid THEN NewDate(text) ELSE DateAt(0)

\* parseInt(match[k]) || 0
IntOrZero(text, m, k) == NatOf(Capture(text, m, k))

\* DataTypeSorter.parseVersion
VersionOf(text, m) ==
  IF m.found
  THEN <<IntOrZero(text, m, 1), IntOrZero(text, m, 2), IntOrZero(text, m, 3),
         IntOrZero(text, m, 4)>>
  ELSE <<0, 0, 0, 0>>

ParseVersion(text) ==
  VersionOf(text, ReExec(Cat(<<Grp(1, Plus(ReD)), Chr("."), Grp(2, Plus(ReD)), Chr("."),
                               Grp(3, Plus(ReD)),
                               Opt(Cat(<<Chr("."), Grp(4, Plus(ReD))>>))>>), text, 1))

\* a[i] || 0
ValueOrZero(a, i) == IF i <= Len(a) THEN a[i] ELSE 0

RECURSIVE CompareVersionsFrom(_, _, _)
CompareVersionsFrom(a, b, i) ==
  IF i > (IF Len(a) > Len(b) THEN Len(a) ELSE Len(b)) THEN 0
  ELSE IF ValueOrZero(a, i) # ValueOrZero(b, i) THEN ValueOrZero(a, i) - ValueOrZero(b, i)
  ELSE CompareVersionsFrom(a, b, i + 1)

\* DataTypeSorter.compareVersions
CompareVersions(a, b) == CompareVersionsFrom(a, b, 1)

\* DataTypeSorter.parseIPAddress
IPAddressOf(text, ipMatch) ==
  IF ipMatch.found
  THEN <<NatOf(Capture(text, ipMatch, 1)), NatOf(Capture(text, ipMatch, 2)),
         NatOf(Capture(text, ipMatch, 3)), NatOf(Capture(text, ipMatch, 4))>>
  ELSE <<0, 0, 0, 0>>

ParseIPAddress(text) ==
  IPAddressOf(text, ReExec(Cat(<<Grp(1, Rep(ReD, 1, 3)), Chr("."), Grp(2, Rep(ReD, 1, 3)),
                                 Chr("."), Grp(3, Rep(ReD, 1, 3)), Chr("."),
                                 Grp(4, Rep(ReD, 1, 3))>>), text, 1))

RECURSIVE CompareOctetsFrom(_, _, _, _)
\* for (let i = first; i < last + 1; i++) if (a[i] !== b[i]) return a[i] - b[i]
CompareOctetsFrom(a, b, i, last) ==
  IF i > last THEN 0
  ELSE IF a[i] # b[i] THEN a[i] - b[i]
  ELSE CompareOctetsFrom(a, b, i + 1, last)

\* a comparison that stops after the third octet
CompareIPAddressesThree(a, b) == CompareOctetsFrom(a, b, 1, 3)

\* DataTypeSorter.compareIPAddresses
CompareIPAddresses(a, b) == CompareOctetsFrom(a, b, 1, 4)

\* new URL(s) for the texts of the model: "http://" or "https://", a host of
\* labels of lower-case letters and digits that ends with a letter, and
\* nothing more or a path of "/", lower-case letters and digits. A text
\* without ":" has no scheme, and new URL raises TypeError.
UrlChars == LowerCase \cup Digits
NewURL(s) ==
  LET m == ReExec(Cat(<<Bol, Grp(1, Cat(<<Lit(<<"h", "t", "t", "p">>), Opt(Chr("s"))>>)),
                        Lit(<<":", "/", "/">>),
                        Grp(2, Cat(<<Star(In(UrlChars \cup {"."})), In(LowerCase)>>)),
                        Grp(3, Opt(Cat(<<Chr("/"), Star(In(UrlChars \cup {"/"}))>>))),
                        Eol>>), s, 1)
  IN CASE m.found ->
            [ok |-> TRUE,
             protocol |-> Capture(s, m, 1) \o <<":">>,
             hostname |-> Capture(s, m, 2),
             pathname |-> IF Capture(s, m, 3) = <<>> THEN <<"/">> ELSE Capture(s, m, 3)]
       [] ~m.found /\ ~Includes(s, <<":">>) ->
            [ok |-> FALSE, protocol |-> <<>>, hostname |-> <<>>, pathname |-> <<>>]

\* text.match(/https?:\/\/[^\s]+/)?.[0] || text
UrlTextOf(text, m) == IF m.found THEN SubSeq(text, m.b, m.e - 1) ELSE text

UrlPartsOf(text, url) ==
  IF url.ok THEN [protocol |-> url.protocol, domain |-> url.hostname, path |-> url.pathname]
  ELSE [protocol |-> <<>>, domain |-> text, path |-> <<>>]

\* DataTypeSorter.parseURL
ParseURL(text) ==
  UrlPartsOf(text, NewURL(UrlTextOf(text,
    ReExec(Cat(<<Lit(<<"h", "t", "t", "p">>), Opt(Chr("s")), Lit(<<":", "/", "/">>),
                 Plus(ReNotS)>>), text, 1))))

\* domainCompare !== 0 ? domainCompare : the second comparison
FirstNonZero(first, second) == IF first # 0 THEN first ELSE second

\* DataTypeSorter.compareURLs
CompareURLs(a, b) ==
  FirstNonZero(LocaleCompare(a.domain, b.domain, FALSE), LocaleCompare(a.path, b.path, FALSE))

EmailPartsOf(text, emailMatch) ==
  IF emailMatch.found
  THEN [local |-> Capture(text, emailMatch, 1), domain |-> Capture(text, emailMatch, 2)]
  ELSE [local |-> <<>>, domain |-> text]

\* DataTypeSorter.parseEmail
ParseEmail(text) ==
  EmailPartsOf(text, ReExec(Cat(<<Grp(1, Plus(NotIn(WhiteSpace \cup {"@"}))), Chr("@"),
                                  Grp(2, Plus(NotIn(WhiteSpace \cup {"@"})))>>), text, 1))

\* DataTypeSorter.compareEmails
CompareEmails(a, b) ==
  FirstNonZero(LocaleCompare(a.domain, b.domain, FALSE), LocaleCompare(a.local, b.local, FALSE))

\* /[0-9a-f]{8}-[0-9a-f]{4}-[0-9a-f]{4}-[0-9a-f]{4}-[0-9a-f]{12}/i
UuidPattern ==
  Cat(<<Rep(ReHex, 8, 8), Chr("-"), Rep(ReHex, 4, 4), Chr("-"), Rep(ReHex, 4, 4), Chr("-"),
        Rep(ReHex, 4, 4), Chr("-"), Rep(ReHex, 12, 12)>>)

\* DataTypeSorter.extractUUID
ExtractUUID(text) == UrlTextOf(text, ReExec(UuidPattern, text, 1))

HexOf(text, hexMatch) == IF hexMatch.found THEN HexValue(Capture(text, hexMatch, 1)) ELSE 0

\* DataTypeSorter.parseHex
ParseHex(text) ==
  HexOf(text, ReExec(Cat(<<Opt(Chr("#")), Grp(1, Plus(ReHex))>>), text, 1))

TimeOf(text, timeMatch) ==
  IF timeMatch.found
  THEN NatOf(Capture(text, timeMatch, 1)) * 3600 + NatOf(Capture(text, timeMatch, 2)) * 60
       + IntOrZero(text, timeMatch, 3)
  ELSE 0

\* DataTypeSorter.parseTime
ParseTime(text) ==
  TimeOf(text, ReExec(Cat(<<Grp(1, Rep(ReD, 1, 2)), Chr(":"), Grp(2, Rep(ReD, 2, 2)),
                            Opt(Cat(<<Chr(":"), Grp(3, Rep(ReD, 2, 2))>>))>>), text, 1))

\* /\d+(?:\.\d+)?\s*(B|KB|MB|GB|TB|PB)/i with the number as group 1 and the
\* unit as group 2
FileSizePattern ==
  Cat(<<Grp(1, Cat(<<Plus(ReD), Opt(Cat(<<Chr("."), Plus(ReD)>>))>>)), Star(ReS),
        Grp(2, Alt(<<LitI(<<"B">>), LitI(<<"K", "B">>), LitI(<<"M", "B">>),
                     LitI(<<"G", "B">>), LitI(<<"T", "B">>), LitI(<<"P", "B">>)>>))>>)

RECURSIVE Pow1024(_)
Pow1024(k) == IF k = 0 THEN 1 ELSE 1024 * Pow1024(k - 1)

\* multipliers[unit] || 1
Multiplier(unit) ==
  CASE unit = <<"B">> -> 1
    [] unit = <<"K", "B">> -> Pow1024(1)
    [] unit = <<"M", "B">> -> Pow1024(2)
    [] unit = <<"G", "B">> -> Pow1024(3)
    [] unit = <<"T", "B">> -> Pow1024(4)
    [] unit = <<"P", "B">> -> Pow1024(5)
    [] OTHER -> 1

\* parseFloat(text) || 0, for a text without "+", exponent and "Infinity"
FloatOrZero(text) ==
  IF ParseFloat(TrimStart(text)).nan THEN Num(0, 0) ELSE ParseFloat(TrimStart(text)).n

SizeOf(text, sizeMatch) ==
  IF sizeMatch.found
  THEN Normal(Num(ParseFloat(Capture(text, sizeMatch, 1)).n.m
                    * Multiplier(ToUpperCase(Capture(text, sizeMatch, 2))),
                  ParseFloat(Capture(text, sizeMatch, 1)).n.e))
  ELSE FloatOrZero(text)

\* DataTypeSorter.parseFileSize
ParseFileSize(text) == SizeOf(text, ReExec(FileSizePattern, text, 1))

----------------------------------------------------------------------------
(* DataTypeSorter.detectDataType *)

IpPattern ==
  Cat(<<Rep(ReD, 1, 3), Chr("."), Rep(ReD, 1, 3), Chr("."), Rep(ReD, 1, 3), Chr("."),
        Rep(ReD, 1, 3)>>)
EmailPattern ==
  Cat(<<Plus(NotIn(WhiteSpace \cup {"@"})), Chr("@"), Plus(NotIn(WhiteSpace \cup {"@"})),
        Chr("."), Plus(NotIn(WhiteSpace \cup {"@"}))>>)
UrlPattern == Cat(<<Lit(<<"h", "t", "t", "p">>), Opt(Chr("s")), Lit(<<":", "/", "/">>)>>)
VersionPattern == Cat(<<Plus(ReD), Chr("."), Plus(ReD), Chr("."), Plus(ReD)>>)
HexColorPattern == Cat(<<Chr("#"), Rep(ReHex, 3, 8)>>)
HexPrefixedPattern == Cat(<<Chr("0"), LitI(<<"x">>), Plus(ReHex)>>)
TimePattern ==
  Cat(<<Rep(ReD, 1, 2), Chr(":"), Rep(ReD, 2, 2), Opt(Cat(<<Chr(":"), Rep(ReD, 2, 2)>>))>>)
IsoDatePattern ==
  Cat(<<Rep(ReD, 4, 4), Chr("-"), Rep(ReD, 2, 2), Chr("-"), Rep(ReD, 2, 2)>>)
SlashDatePattern ==
  Cat(<<Rep(ReD, 2, 2), Chr("/"), Rep(ReD, 2, 2), Chr("/"), Rep(ReD, 4, 4)>>)
MonthDatePattern ==
  Cat(<<Plus(ReW), Plus(ReS), Rep(ReD, 1, 2), Opt(Chr(",")), Plus(ReS), Rep(ReD, 4, 4)>>)
NumberPattern == Cat(<<Bol, Opt(Chr("-")), Plus(ReD), Opt(Chr(".")), Star(ReD), Eol>>)

\* The tests of detectDataType, by the kind each one returns.
KindMatches(kind, text) ==
  CASE kind = "uuid" -> ReTest(UuidPattern, text)
    [] kind = "ip" -> ReTest(IpPattern, text)
    [] kind = "email" -> ReTest(EmailPattern, text)
    [] kind = "url" -> ReTest(UrlPattern, text)
    [] kind = "version" -> ReTest(VersionPattern, text)
    [] kind = "hex" -> ReTest(HexColorPattern, text) \/ ReTest(HexPrefixedPattern, text)
    [] kind = "time" -> ReTest(TimePattern, text)
    [] kind = "filesize" -> ReTest(FileSizePattern, text)
    [] kind = "date" -> \/ ReTest(IsoDatePattern, text)
                        \/ ReTest(SlashDatePattern, text)
                        \/ ReTest(MonthDatePattern, text)
    [] kind = "number" -> ReTest(NumberPattern, Trim(text))

\* A detectDataType that looks for a version before anything else.
DetectDataTypeVersionFirst(text) ==
  IF KindMatches("version", text) THEN "version"
  ELSE IF KindMatches("uuid", text) THEN "uuid"
  ELSE IF KindMatches("ip", text) THEN "ip"
  ELSE IF KindMatches("email", text) THEN "email"
  ELSE IF KindMatches("url", text) THEN "url"
  ELSE IF KindMatches("hex", text) THEN "hex"
  ELSE IF KindMatches("time", text) THEN "time"
  ELSE IF KindMatches("filesize", text) THEN "filesize"
  ELSE IF KindMatches("date", text) THEN "date"
  ELSE IF KindMatches("number", text) THEN "number"
  ELSE "null"

\* DataTypeSorter.detectDataType ("null" for null)
DetectDataType(text) ==
  IF KindMatches("uuid", text) THEN "uuid"
  ELSE IF KindMatches("ip", text) THEN "ip"
  ELSE IF KindMatches("email", text) THEN "email"
  ELSE IF KindMatches("url", text) THEN "url"
  ELSE IF KindMatches("version", text) THEN "version"
  ELSE IF KindMatches("hex", text) THEN "hex"
  ELSE IF KindMatches("time", text) THEN "time"
  ELSE IF KindMatches("filesize", text) THEN "filesize"
  ELSE IF KindMatches("date", text) THEN "date"
  ELSE IF KindMatches("number", text) THEN "number"
  ELSE "null"

----------------------------------------------------------------------------
(* DataTypeSorter: the sorters *)

KeysOf(lines, Key(_)) == [k \in 1..Len(lines) |-> Key(lines[k])]

\* options.sortOrder === 'desc' ? -result : result
InOrder(comparison, options) ==
  IF options.sortOrder = "desc" THEN -comparison ELSE comparison

\* dateA.getTime() - dateB.getTime(): NaN when a date is an Invalid Date
DateDifference(dateA, dateB) ==
  IF dateA.valid /\ dateB.valid THEN [nan |-> FALSE, v |-> dateA.t - dateB.t]
  ELSE [nan |-> TRUE, v |-> 0]

\* The lines with the Date parseDate makes of each.
DatedLines(lines) ==
  [k \in 1..Len(lines) |-> [line |-> lines[k], date |-> DataParseDate(lines[k])]]

\* What Array.prototype.sort makes of the comparator's value: NaN counts as +0.
DateOrder(a, b, options) ==
  LET difference == DateDifference(a.date, b.date)
  IN IF difference.nan THEN 0 ELSE InOrder(Sign(difference.v), options)

\* The value the comparator of each sorter returns for the lines a and b
DataCompare(dataType, a, b, options) ==
  CASE dataType = "number" ->
         InOrder(NumCompare(DataParseNumber(a), DataParseNumber(b)), options)
    [] dataType = "date" ->
         DateOrder([date |-> DataParseDate(a)], [date |-> DataParseDate(b)], options)
    [] dataType = "version" ->
         InOrder(CompareVersions(ParseVersion(a), ParseVersion(b)), options)
    [] dataType = "ip" ->
         InOrder(CompareIPAddresses(ParseIPAddress(a), ParseIPAddress(b)), options)
    [] dataType = "url" -> InOrder(CompareURLs(ParseURL(a), ParseURL(b)), options)
    [] dataType = "email" -> InOrder(CompareEmails(ParseEmail(a), ParseEmail(b)), options)
    [] dataType = "uuid" ->
         InOrder(LocaleCompare(ExtractUUID(a), ExtractUUID(b), FALSE), options)
    [] dataType = "hex" -> InOrder(ParseHex(a) - ParseHex(b), options)
    [] dataType = "time" -> InOrder(ParseTime(a) - ParseTime(b), options)
    [] dataType = "filesize" ->
         InOrder(NumCompare(ParseFileSize(a), ParseFileSize(b)), options)

\* DataTypeSorter.sortNumbers
SortNumbers(lines, options) ==
  SortBy(lines, LAMBDA a, b : DataCompare("number", a, b, options))

\* A consistent comparator on the elements of ls: equal elements compare
\* alike with every other, and less-than is transitive and antisymmetric.
IsConsistent(ls, Cmp(_, _)) ==
  \A i, j, k \in 1..Len(ls) :
    /\ Cmp(ls[i], ls[j]) = 0 => Sign(Cmp(ls[i], ls[k])) = Sign(Cmp(ls[j], ls[k]))
    /\ Cmp(ls[i], ls[j]) < 0 => Cmp(ls[j], ls[i]) > 0
    /\ (Cmp(ls[i], ls[j]) < 0 /\ Cmp(ls[j], ls[k]) < 0) => Cmp(ls[i], ls[k]) < 0

\* the orders of the elements of ls
Reorderings(ls) ==
  {[k \in 1..Len(ls) |-> ls[p[k]]] : p \in Permutations(1..Len(ls))}

\* The lists sort may leave: with a comparator that is not consistent the
\* order is implementation-defined.
SortDated(dated, options) ==
  IF IsConsistent(dated, LAMBDA a, b : DateOrder(a, b, options))
  THEN {KeysOf(SortBy(dated, LAMBDA a, b : DateOrder(a, b, options)), LAMBDA d : d.line)}
  ELSE Reorderings(KeysOf(dated, LAMBDA d : d.line))

\* DataTypeSorter.sortDates
SortDates(lines, options) == SortDated(DatedLines(lines), options)

\* DataTypeSorter.sortVersions
SortVersions(lines, options) ==
  SortBy(lines, LAMBDA a, b : DataCompare("version", a, b, options))

\* DataTypeSorter.sortIPAddresses
SortIPAddresses(lines, options) ==
  SortBy(lines, LAMBDA a, b : DataCompare("ip", a, b, options))

\* DataTypeSorter.sortURLs
SortURLs(lines, options) ==
  SortBy(lines, LAMBDA a, b : DataCompare("url", a, b, options))

\* DataTypeSorter.sortEmails
SortEmails(lines, options) ==
  SortBy(lines, LAMBDA a, b : DataCompare("email", a, b, options))

\* DataTypeSorter.sortUUIDs
SortUUIDs(lines, options) ==
  SortBy(lines, LAMBDA a, b : DataCompare("uuid", a, b, options))

\* DataTypeSorter.sortHexValues
SortHexValues(lines, options) ==
  SortBy(lines, LAMBDA a, b : DataCompare("hex", a, b, options))

\* DataTypeSorter.sortTimes
SortTimes(lines, options) ==
  SortBy(lines, LAMBDA a, b : DataCompare("time", a, b, options))

\* DataTypeSorter.sortFileSizes
SortFileSizes(lines, options) ==
  SortBy(lines, LAMBDA a, b : DataCompare("filesize", a, b, options))

----------------------------------------------------------------------------
(* The data type sorter, one call each: detectDataType(text) on a text, and
   sortByDataType(lines, options) on the caller's list of lines *)

\* A list to sort has at most MaxDataLines lines.
MaxDataLines == 3

DataTypes == {"number", "date", "version", "ip", "url", "email", "uuid", "hex", "time",
              "filesize"}

\* The example of the README: IP addresses
ReadmeIPAddresses == <<<<"1", "9", "2", ".", "1", "6", "8", ".", "1", ".", "1", "0">>, <<"1", "0", ".", "0", ".", "0", ".", "1">>, <<"1", "9", "2", ".", "1", "6", "8", ".", "1", ".", "2">>, <<"1", "7", "2", ".", "1", "6", ".", "0", ".", "1">>>>

DataLinesOf(dataType) ==
  CASE dataType = "number" -> {<<"1", "0">>, <<"9">>, <<"-", "1", ".", "5">>, <<"x", "2">>, <<"a", "b", "c">>}
    [] dataType = "date" ->
         {<<"2", "0", "2", "4", "-", "0", "1", "-", "0", "5">>, <<"2", "0", "2", "3", "-", "1", "3", "-", "0", "1">>, <<"1", "9", "7", "0", "-", "0", "1", "-", "0", "2">>, <<"a", "b", "c">>,
          <<"2", "0", "2", "4", YearMark, SP, "1", MonthMark, SP, "5", DayMark>>}
    [] dataType = "version" -> {<<"1", ".", "9", ".", "0">>, <<"1", ".", "1", "0", ".", "0">>, <<"2", ".", "5">>, <<"1", ".", "0", ".", "0", ".", "1">>, <<"3">>}
    [] dataType = "ip" -> {<<"1", "9", "2", ".", "1", "6", "8", ".", "1", ".", "1", "0">>, <<"1", "0", ".", "0", ".", "0", ".", "1">>, <<"1", "9", "2", ".", "1", "6", "8", ".", "1", ".", "2">>, <<"1", "7", "2", ".", "1", "6", ".", "0", ".", "1">>, <<"n", "/", "a">>}
    [] dataType = "url" ->
         {<<"h", "t", "t", "p", ":", "/", "/", "b", ".", "c", "o", "m", "/", "x">>, <<"h", "t", "t", "p", "s", ":", "/", "/", "a", ".", "c", "o", "m", "/", "y">>, <<"h", "t", "t", "p", ":", "/", "/", "a", ".", "c", "o", "m">>, <<"b", ".", "c", "o", "m">>, <<"s", "e", "e", SP, "h", "t", "t", "p", ":", "/", "/", "a", ".", "c", "o", "m", "/", "x">>}
    [] dataType = "email" -> {<<"a", "@", "b", ".", "c", "o", "m">>, <<"b", "@", "a", ".", "c", "o", "m">>, <<"c", "@", "a", ".", "c", "o", "m">>, <<"n", "o", "b", "o", "d", "y">>, <<"x", SP, "a", "@", "b", ".", "c", "o", "m">>}
    [] dataType = "uuid" ->
         {<<"1", "2", "3", "e", "4", "5", "6", "7", "-", "e", "8", "9", "b", "-", "1", "2", "d", "3", "-", "a", "4", "5", "6", "-", "4", "2", "6", "6", "1", "4", "1", "7", "4", "0", "0", "0">>, <<"0", "0", "0", "0", "0", "0", "0", "0", "-", "0", "0", "0", "0", "-", "0", "0", "0", "0", "-", "0", "0", "0", "0", "-", "0", "0", "0", "0", "0", "0", "0", "0", "0", "0", "0", "1">>,
          <<"i", "d", SP, "1", "2", "3", "e", "4", "5", "6", "7", "-", "e", "8", "9", "b", "-", "1", "2", "d", "3", "-", "a", "4", "5", "6", "-", "4", "2", "6", "6", "1", "4", "1", "7", "4", "0", "0", "0">>, <<"a", "b", "c">>}
    [] dataType = "hex" -> {<<"#", "1", "A">>, <<"0", "x", "1", "A">>, <<"0", "x", "F", "F">>, <<"f", "f">>, <<"z", "z">>}
    [] dataType = "time" -> {<<"1", "2", ":", "3", "0">>, <<"9", ":", "0", "5">>, <<"1", ":", "0", "5", ":", "0", "9">>, <<"1", "2", ":", "3", "0", ":", "0", "1">>, <<"n", "o", "o", "n">>}
    [] dataType = "filesize" -> {<<"5", "K", "B">>, <<"1", ".", "5", SP, "M", "B">>, <<"1", "0", SP, "B">>, <<"2", "0", "4", "8">>, <<"2", "k", "b">>}

DataListsOf(dataType) ==
  Docs(DataLinesOf(dataType), MaxDataLines)
    \cup (IF dataType = "ip" THEN {ReadmeIPAddresses} ELSE {})

\* The texts detectDataType is asked about.
DetectTexts ==
  {<<"1", "2", "3", "e", "4", "5", "6", "7", "-", "e", "8", "9", "b", "-", "1", "2", "d", "3", "-", "a", "4", "5", "6", "-", "4", "2", "6", "6", "1", "4", "1", "7", "4", "0", "0", "0">>,
   <<"v", "1", ".", "2", ".", "3", SP, "1", "2", "3", "E", "4", "5", "6", "7", "-", "E", "8", "9", "B", "-", "1", "2", "D", "3", "-", "A", "4", "5", "6", "-", "4", "2", "6", "6", "1", "4", "1", "7", "4", "0", "0", "0">>,
   <<"1", "0", ".", "0", ".", "0", ".", "1", SP, "1", "2", "3", "e", "4", "5", "6", "7", "-", "e", "8", "9", "b", "-", "1", "2", "d", "3", "-", "a", "4", "5", "6", "-", "4", "2", "6", "6", "1", "4", "1", "7", "4", "0", "0", "0">>,
   <<"1", "0", ".", "0", ".", "0", ".", "1">>, <<"a", "@", "b", ".", "c", "o">>, <<"a", "@", "1", ".", "2", ".", "3">>, <<"h", "t", "t", "p", ":", "/", "/", "a", ".", "c", "o", "m">>, <<"h", "t", "t", "p", ":", "/", "/", "a", ".", "c", "o", "m", "/", "1", ".", "2", ".", "3">>, <<"1", ".", "2", ".", "3">>,
   <<"#", "a", "b", "c", SP, "1", ".", "2", ".", "3">>, <<"#", "f", "f", "f">>, <<"0", "x", "1", "A">>, <<"1", "2", ":", "3", "0">>, <<"1", ":", "0", "5", ":", "0", "9">>, <<"1", "2", ":", "3", "0", SP, "5", "M", "B">>, <<"5", "K", "B">>, <<"1", "0", SP, "B">>, <<"1", "B">>,
   <<"2", "0", "2", "4", "-", "0", "1", "-", "0", "5">>, <<"2", "0", "2", "4", "-", "0", "1", "-", "0", "5", SP, "1", "2", ":", "3", "0">>, <<"0", "1", "/", "0", "5", "/", "2", "0", "2", "4">>, <<"j", "a", "n", SP, "5", ",", SP, "2", "0", "2", "4">>, <<"4", "2">>, <<"-", "1", ".", "5">>, <<SP, "7", SP>>,
   <<"4", SP, "2">>, <<"a", "b", "c">>, <<>>}

DataOptions(dataType, sortOrder) == [dataType |-> dataType, sortOrder |-> sortOrder]

\* detectDataType takes no options.
NoOptions == DataOptions("none", "asc")

InitData ==
  /\ lang = "data"
  /\ \/ /\ pc = "detectDataType"
        /\ conv = NoOptions
        /\ input \in {<<text>> : text \in DetectTexts}
     \/ /\ pc = "sortByDataType"
        /\ conv \in {DataOptions(dataType, sortOrder) :
                       dataType \in DataTypes, sortOrder \in {"asc", "desc"}}
        /\ input \in DataListsOf(conv.dataType)
  /\ cur = <<>>
  /\ warnings = <<>>
  /\ console = <<>>
  /\ result = NoResult
  /\ stages = <<>>
  /\ pass = "first"
  /\ prev = <<>>

\* DataTypeSorter.detectDataType(text)
Data_detectDataType ==
  /\ pc = "detectDataType"
  /\ pc' = "detected"
  /\ result' = [pending |-> FALSE, output |-> DetectDataType(input[1])]
  /\ stages' = Append(stages, "detectDataType")
  /\ UNCHANGED <<lang, input, conv, cur, warnings, console, pass, prev>>

\* return lines.sort(comparator): sort orders the caller's array in place and
\* returns that same array. input is the caller's array, prev what it held
\* when the call was made, cur the key of each of those lines.
DataReturn(sorter, keys, sorted) ==
  /\ pc = "sortByDataType"
  /\ pc' = "returned"
  /\ prev' = input
  /\ cur' = keys
  /\ input' = sorted
  /\ result' = [pending |-> FALSE, output |-> sorted]
  /\ stages' = Append(stages, sorter)
  /\ UNCHANGED <<lang, conv, warnings, console, pass>>

Data_sortNumbers ==
  /\ conv.dataType = "number"
  /\ DataReturn("sortNumbers", KeysOf(input, DataParseNumber), SortNumbers(input, conv))

Data_sortDates ==
  /\ conv.dataType = "date"
  /\ \E sorted \in SortDates(input, conv) :
       DataReturn("sortDates", KeysOf(input, DataParseDate), sorted)

Data_sortVersions ==
  /\ conv.dataType = "version"
  /\ DataReturn("sortVersions", KeysOf(input, ParseVersion), SortVersions(input, conv))

Data_sortIPAddresses ==
  /\ conv.dataType = "ip"
  /\ DataReturn("sortIPAddresses", KeysOf(input, ParseIPAddress),
                SortIPAddresses(input, conv))

Data_sortURLs ==
  /\ conv.dataType = "url"
  /\ DataReturn("sortURLs", KeysOf(input, ParseURL), SortURLs(input, conv))

Data_sortEmails ==
  /\ conv.dataType = "email"
  /\ DataReturn("sortEmails", KeysOf(input, ParseEmail), SortEmails(input, conv))

Data_sortUUIDs ==
  /\ conv.dataType = "uuid"
  /\ DataReturn("sortUUIDs", KeysOf(input, ExtractUUID), SortUUIDs(input, conv))

Data_sortHexValues ==
  /\ conv.dataType = "hex"
  /\ DataReturn("sortHexValues", KeysOf(input, ParseHex), SortHexValues(input, conv))

Data_sortTimes ==
  /\ conv.dataType = "time"
  /\ DataReturn("sortTimes", KeysOf(input, ParseTime), SortTimes(input, conv))

Data_sortFileSizes ==
  /\ conv.dataType = "filesize"
  /\ DataReturn("sortFileSizes", KeysOf(input, ParseFileSize), SortFileSizes(input, conv))

NextData ==
  \/ Data_detectDataType
  \/ Data_sortNumbers
  \/ Data_sortDates
  \/ Data_sortVersions
  \/ Data_sortIPAddresses
  \/ Data_sortURLs
  \/ Data_sortEmails
  \/ Data_sortUUIDs
  \/ Data_sortHexValues
  \/ Data_sortTimes
  \/ Data_sortFileSizes

SpecData == InitData /\ [][NextData]_vars

----------------------------------------------------------------------------
(* Properties of the data type sorter *)

DetectionOrder ==
  <<"uuid", "ip", "email", "url", "version", "hex", "time", "filesize", "date", "number">>

\* the positions in DetectionOrder of the kinds whose test accepts the text
MatchingKinds(text) == {k \in 1..Len(DetectionOrder) : KindMatches(DetectionOrder[k], text)}

\* C11: detectDataType returns the first kind, in the order uuid, ip, email,
\* url, version, hex, time, filesize, date, number, whose pattern matches the
\* text, and null when none matches; a text with a UUID in it is a uuid even
\* when the version or the ip pattern matches it too.
C11_FirstMatchWins ==
  pc = "detected" =>
    /\ IF MatchingKinds(input[1]) = {} THEN result.output = "null"
       ELSE \E k \in MatchingKinds(input[1]) :
              /\ result.output = DetectionOrder[k]
              /\ \A j \in MatchingKinds(input[1]) : k <= j
    /\ ReTest(UuidPattern, input[1]) => result.output = "uuid"

\* C11 happens: a text with a UUID that the version pattern also matches.
C11_Witness ==
  /\ pc = "detected"
  /\ ReTest(UuidPattern, input[1])
  /\ ReTest(VersionPattern, input[1])
  /\ result.output = "uuid"

\* C12: sortByDataType leaves the list passed in by the caller unchanged, with
\* the same elements in the same order after the call, for every dataType.
C12_CallerListUnchanged ==
  pc = "returned" => input = prev

\* the sign of the comparison of two tuples of four integers, left to right
TupleCompare(a, b) ==
  IF a = b THEN 0
  ELSE IF \E i \in 1..4 : a[i] < b[i] /\ \A j \in 1..(i - 1) : a[j] = b[j] THEN -1
  ELSE 1

IsDigits(s) == s # <<>> /\ \A k \in 1..Len(s) : s[k] \in Digits

\* one to four integer components separated by dots
IsVersionString(line) ==
  /\ Len(SplitOn(line, ".")) \in 1..4
  /\ \A k \in 1..Len(SplitOn(line, ".")) : IsDigits(SplitOn(line, ".")[k])

\* the components, with zeros for those left out
PaddedVersion(line) ==
  [i \in 1..4 |-> IF i <= Len(SplitOn(line, ".")) THEN NatOf(SplitOn(line, ".")[i]) ELSE 0]

\* C13: for every pair of version strings with one to four dot-separated
\* integer components, the comparator of sortVersions orders them by their
\* component tuple padded with zeros to four components, compared left to
\* right as integers ("2.5" counts as 2.5.0.0).
C13_VersionComparison ==
  (pc = "returned" /\ conv.dataType = "version") =>
    \A j, k \in 1..Len(prev) :
      (IsVersionString(prev[j]) /\ IsVersionString(prev[k])) =>
        Sign(CompareVersions(cur[j], cur[k]))
          = TupleCompare(PaddedVersion(prev[j]), PaddedVersion(prev[k]))

\* the four octets of a line that is an address, 0.0.0.0 for any other line
OctetsOf(line) ==
  IF Len(SplitOn(line, ".")) = 4 /\ \A k \in 1..4 : IsDigits(SplitOn(line, ".")[k])
  THEN [i \in 1..4 |-> NatOf(SplitOn(line, ".")[i])]
  ELSE <<0, 0, 0, 0>>

\* C14: sortByDataType with dataType 'ip' and sortOrder 'asc' returns the
\* lines it was given, ordered by their four octets compared as integers left
\* to right, a line without an address counting as 0.0.0.0.
C14_IPAddressesAscending ==
  (pc = "returned" /\ conv.dataType = "ip" /\ conv.sortOrder = "asc") =>
    /\ Len(result.output) = Len(prev)
    /\ \A k \in 1..Len(prev) :
         Occurrences(result.output, prev[k]) = Occurrences(prev, prev[k])
    /\ \A k \in 1..(Len(prev) - 1) :
         TupleCompare(OctetsOf(result.output[k]), OctetsOf(result.output[k + 1])) <= 0

\* C14 happens: the example of the README.
C14_Witness ==
  /\ pc = "returned" /\ conv.dataType = "ip" /\ conv.sortOrder = "asc"
  /\ prev = ReadmeIPAddresses
  /\ result.output = <<<<"1", "0", ".", "0", ".", "0", ".", "1">>, <<"1", "7", "2", ".", "1", "6", ".", "0", ".", "1">>, <<"1", "9", "2", ".", "1", "6", "8", ".", "1", ".", "2">>, <<"1", "9", "2", ".", "1", "6", "8", ".", "1", ".", "1", "0">>>>

\* '#' and hex digits, '0x' and hex digits, or hex digits alone
IsHexString(line) ==
  LET digits == IF StartsWith(line, <<"#">>) THEN Drop(line, 1)
                ELSE IF StartsWith(line, <<"0", "x">>) THEN Drop(line, 2)
                ELSE line
  IN digits # <<>> /\ \A k \in 1..Len(digits) : digits[k] \in HexDigits

\* the base-16 value of the digits after the prefix
HexStringValue(line) ==
  HexValue(IF StartsWith(line, <<"#">>) THEN Drop(line, 1)
           ELSE IF StartsWith(line, <<"0", "x">>) THEN Drop(line, 2)
           ELSE line)

\* C15: for every line of the form '#' and hex digits, '0x' and hex digits, or
\* hex digits alone, the key the hex comparator uses is the base-16 value of
\* the digits after the prefix, so that 0x1A < 0xFF and 0x1A equals #1A.
C15_HexKeyIsValue ==
  (pc = "returned" /\ conv.dataType = "hex") =>
    \A k \in 1..Len(prev) : IsHexString(prev[k]) => cur[k] = HexStringValue(prev[k])

\* C16: the key sortDates derives for a line is always a valid instant (the
\* epoch for a line that is not a date), so that the date comparator never
\* returns NaN.
C16_DateKeyIsInstant ==
  (pc = "returned" /\ conv.dataType = "date") =>
    /\ \A k \in 1..Len(prev) : cur[k].valid
    /\ \A j, k \in 1..Len(prev) : ~DateDifference(cur[j], cur[k]).nan

\* the keys of every object of the value, at every level, ascend in code-unit
\* order in the order JSON.stringify writes them
RECURSIVE KeysAscending(_)
KeysAscending(value) ==
  CASE value.t = "arr" -> \A i \in 1..Len(value.v) : KeysAscending(value.v[i])
    [] value.t = "obj" ->
         /\ \A i \in 1..(Len(value.v) - 1) : StrLess(value.v[i].k, value.v[i + 1].k)
         /\ \A i \in 1..Len(value.v) : KeysAscending(value.v[i].v)
    [] OTHER -> TRUE

\* C17: for every decodable JSON document, sortJSON with sortJSONKeys returns
\* a document in which the keys of every object at every nesting level,
\* objects inside arrays included, are in ascending lexicographic order, array
\* elements keep their order, and every key maps to the value it had.
C17_KeysSortedRecursively ==
  (pc = "returned" /\ lang = "json" /\ conv.sortJSONKeys /\ JsonParse(input).ok) =>
    /\ cur # <<>>
    /\ KeysAscending(cur[1])
    /\ SameValue(cur[1], JsonParse(input).v)
    /\ JsonParse(result.output).ok
    /\ SameValue(JsonParse(result.output).v, JsonParse(input).v)

\* the positions of the property lines between the opening and the closing line
PropertyPlaces(lines) == {k \in 2..(Len(lines) - 1) : ExtractObjectKey(lines[k]) # <<>>}

\* C18: sortJSObjectProperties returns the property lines between the opening
\* and the closing line of an object literal in alphabetical order of their
\* keys, with the opening and the closing line in place and no line lost or
\* added (name, age, email, address becomes address, age, email, name).
C18_PropertiesAlphabetical ==
  (pc = "returned" /\ lang = "jsobject") =>
    /\ Len(cur) = Len(SplitLines(input))
    /\ cur[1] = SplitLines(input)[1]
    /\ cur[Len(cur)] = SplitLines(input)[Len(cur)]
    /\ \A k \in 1..Len(cur) : Occurrences(cur, cur[k]) = Occurrences(SplitLines(input), cur[k])
    /\ \A j, k \in PropertyPlaces(cur) :
         j < k => ~StrLess(ExtractObjectKey(cur[k]), ExtractObjectKey(cur[j]))

IsImportLine(line) ==
  StartsWith(Trim(line), W_import \o <<SP>>) \/ StartsWith(Trim(line), W_from \o <<SP>>)

IsFromLine(line) == StartsWith(Trim(line), W_from \o <<SP>>)

\* the order the import lines a and b of one block are to come in, a first
ImportsInOrder(a, b) ==
  /\ ~(IsPythonStdlib(ExtractPythonModule(b)) /\ ~IsPythonStdlib(ExtractPythonModule(a)))
  /\ ~(IsFromLine(a) /\ ~IsFromLine(b))
  /\ (/\ IsFromLine(a) = IsFromLine(b)
      /\ IsPythonStdlib(ExtractPythonModule(a)) = IsPythonStdlib(ExtractPythonModule(b)))
       => ~StrLess(ExtractPythonModule(b), ExtractPythonModule(a))

\* C19: in every import block of the result of sortPython with sortImports,
\* an import of a module on the standard-library list precedes every import
\* of a module not on it, a plain import precedes a from import, and imports
\* alike in both are in lexicographic order of the module name.
C19_PythonImportOrder ==
  (pc = "sorted" /\ lang = "python" /\ conv.sortImports) =>
    \A j, k \in 1..Len(cur) :
      (j < k /\ \A i \in j..k : IsImportLine(cur[i].line)) =>
        ImportsInOrder(cur[j].line, cur[k].line)

\* C20: in the Java, JavaScript and Kotlin pipelines the indentation pass runs
\* after brace placement, spacing and list-separator handling, and only the
\* final cleanup runs after it.
C20_IndentationLast ==
  lang \in {"java", "javascript", "kotlin"} =>
    \A i, j \in 1..Len(stages) :
      /\ (/\ stages[i] = "applyIndentation"
          /\ stages[j] \in {"applyBraceStyle", "applySpacingRules", "handleTrailingCommas"})
           => j < i
      /\ (stages[i] = "applyIndentation" /\ i < j) => stages[j] = "finalCleanup"

----------------------------------------------------------------------------
(* The nesting counters of the line scanners, one line at a time *)

\* A text to scan has at most MaxScanLines lines.
MaxScanLines == 3

ScanLoops == {"applyIndentation", "formatClassStructure", "sortJavaScript", "sortCSS"}

ScanLines == {<<"}">>, <<"{">>, <<"a", SP, "{">>, <<"}", SP, "b", SP, "{">>, <<SP, "c", ":", SP, "d", ";">>, <<"x">>, <<>>}

\* indentLevel after one iteration of applyIndentation's loop
IndentLevelAfter(indentLevel, line, closers, openers) ==
  LET trimmedLine == Trim(line)
      lowered == IF Head(trimmedLine) \in closers
                 THEN (IF indentLevel - 1 > 0 THEN indentLevel - 1 ELSE 0)
                 ELSE indentLevel
  IN IF trimmedLine = <<>> THEN indentLevel
     ELSE IF trimmedLine[Len(trimmedLine)] \in openers THEN lowered + 1
     ELSE lowered

\* the delimiters applyIndentation of a formatter looks at
ClosersOf(formatter) == IF formatter = "javascript" THEN {"}", "]", ")"} ELSE {"}"}
OpenersOf(formatter) == IF formatter = "javascript" THEN {"{", "[", "("} ELSE {"{"}

ScanOptionsOf(loop) ==
  CASE loop = "applyIndentation" -> {[formatter |-> f] : f \in {"java", "javascript", "kotlin"}}
    [] loop = "sortJavaScript" -> {LanguageOptions(b, FALSE) : b \in BOOLEAN}
    [] OTHER -> {LanguageOptions(FALSE, TRUE)}

\* the state of a loop before its first iteration
ScanStart(loop) ==
  IF loop \in {"applyIndentation", "formatClassStructure"} THEN 0 ELSE SorterStart

\* cur is the number of lines scanned and the loop's state after them: the
\* counter itself for applyIndentation and formatClassStructure, the record
\* with braceCount for the two sorters
InitScan ==
  /\ lang \in ScanLoops
  /\ input \in {JoinLines(d) : d \in Docs(ScanLines, MaxScanLines)}
  /\ conv \in ScanOptionsOf(lang)
  /\ pc = "scan"
  /\ cur = [i |-> 0, st |-> ScanStart(lang)]
  /\ warnings = <<>>
  /\ console = <<>>
  /\ result = NoResult
  /\ stages = <<>>
  /\ pass = "first"
  /\ prev = {}

\* one iteration of a loop over the lines of the input
ScanLine(loop, after) ==
  /\ lang = loop
  /\ pc = "scan"
  /\ cur.i < Len(SplitLines(input))
  /\ cur' = [i |-> cur.i + 1, st |-> after]
  /\ UNCHANGED <<lang, input, conv, pc, warnings, console, result, stages, pass, prev>>

Scan_applyIndentation ==
  ScanLine("applyIndentation",
           IndentLevelAfter(cur.st, SplitLines(input)[cur.i + 1],
                            ClosersOf(conv.formatter), OpenersOf(conv.formatter)))

Scan_formatClassStructure ==
  ScanLine("formatClassStructure", BraceDepthAfter(cur.st, SplitLines(input)[cur.i + 1]))

Scan_sortJavaScript ==
  ScanLine("sortJavaScript", JsLine(cur.st, Numbered(SplitLines(input))[cur.i + 1], conv))

Scan_sortCSS ==
  ScanLine("sortCSS", CssLine(cur.st, Numbered(SplitLines(input))[cur.i + 1]))

NextScan ==
  \/ Scan_applyIndentation
  \/ Scan_formatClassStructure
  \/ Scan_sortJavaScript
  \/ Scan_sortCSS

SpecScan == InitScan /\ [][NextScan]_vars

\* the nesting counter of the loop being run
NestingCounter == IF lang \in {"sortJavaScript", "sortCSS"} THEN cur.st.braceCount ELSE cur.st

\* C21: every nesting counter kept while scanning lines (indentLevel of
\* applyIndentation, braceDepth of formatClassStructure, braceCount of
\* sortJavaScript and sortCSS) is non-negative after every line, also for a
\* text with more closing than opening delimiters.
C21_CountersNonNegative ==
  lang \in ScanLoops => NestingCounter >= 0

----------------------------------------------------------------------------
(* The formatter stages: blank lines, separators, final newline, imports *)

\* the stage that ran last
LastStage == IF stages = <<>> THEN "" ELSE stages[Len(stages)]

\* the line types formatClassStructure gives the lines of a text; blank lines
\* do not change braceDepth
JavaLineTypes(lines) ==
  [k \in 1..Len(lines) |->
     JavaLineType(Trim(lines[k]), BraceDepthAfter(0, JoinLines(SubSeq(lines, 1, k))))]

KotlinLineTypes(lines) == [k \in 1..Len(lines) |-> KotlinLineType(Trim(lines[k]))]

\* between two methods that follow each other there are exactly
\* blankLinesBetweenMethods blank lines, between a class declaration and the
\* line that follows it exactly blankLinesBetweenClasses
BlankLineRule(types, method, c) ==
  \A j, k \in 1..Len(types) :
    (j < k /\ types[k] # "blank" /\ \A i \in (j + 1)..(k - 1) : types[i] = "blank") =>
      /\ (types[j] = method /\ types[k] = method) => k - j - 1 = c.blankLinesBetweenMethods
      /\ (types[j] = "class" /\ types[k] # "class") => k - j - 1 = c.blankLinesBetweenClasses

\* C22: in the output of formatClassStructure and of
\* formatClassAndFunctionStructure two consecutive method or function
\* declarations are separated by exactly blankLinesBetweenMethods blank lines
\* and the line following a class declaration is preceded by exactly
\* blankLinesBetweenClasses blank lines, whatever blank lines the input had.
C22_BlankLinesExact ==
  /\ (lang = "java" /\ LastStage = "formatClassStructure") =>
       BlankLineRule(JavaLineTypes(SplitLines(cur)), "method", conv)
  /\ (lang = "kotlin" /\ LastStage = "formatClassAndFunctionStructure") =>
       BlankLineRule(KotlinLineTypes(SplitLines(cur)), "function", conv)

----------------------------------------------------------------------------
(* The two sort orders side by side: one list of lines, compared and sorted
   under 'asc' and under 'desc' by the same sorter *)

\* A list to compare has at most MaxOrderLines lines.
MaxOrderLines == 3

SortMethods == {"alphabetical", "numerical", "date", "length", "custom"}

\* The lines of each sort method. The 'date' method reads its lines with
\* new Date: dates in the form YYYY-MM-DD and texts without a digit.
OrderLinesOf(sortType) ==
  IF sortType = "date"
  THEN {<<"2", "0", "2", "4", "-", "0", "1", "-", "0", "5">>, <<"1", "9", "7", "0", "-", "0", "1", "-", "0", "2">>, <<"2", "0", "2", "3", "-", "1", "2", "-", "3", "1">>, <<"a", "b", "c">>}
  ELSE {<<"b">>, <<"a", "1", "0">>, <<SP, "a", "2">>, <<"9">>}

\* Which sorter, and with which settings besides sortOrder
OrderSettings ==
  {[sorter |-> "AdvancedSorter", sortType |-> m, dataType |-> "string",
     customPattern |-> <<>>] : m \in SortMethods}
  \cup {[sorter |-> "AdvancedSorter", sortType |-> "numerical", dataType |-> "number",
         customPattern |-> <<>>]}
  \cup {[sorter |-> "AdvancedSorter", sortType |-> "custom", dataType |-> "string",
         customPattern |-> <<"^", "a">>]}
  \cup {[sorter |-> "DataTypeSorter", sortType |-> "", dataType |-> d,
         customPattern |-> <<>>] : d \in DataTypes}

\* The lists of a sorter: at most MaxOrderLines lines, no line twice
OrderListsOf(settings) ==
  {d \in Docs(IF settings.sorter = "AdvancedSorter"
              THEN OrderLinesOf(settings.sortType)
              ELSE DataLinesOf(settings.dataType), MaxOrderLines) :
     \A i, j \in 1..Len(d) : i # j => d[i] # d[j]}

InitOrder ==
  /\ lang = "order"
  /\ conv \in OrderSettings
  /\ input \in OrderListsOf(conv)
  /\ pc = "compare"
  /\ cur = <<>>
  /\ warnings = <<>>
  /\ console = <<>>
  /\ result = NoResult
  /\ stages = <<>>
  /\ pass = "first"
  /\ prev = <<>>

Reversed(ls) == [k \in 1..Len(ls) |-> ls[Len(ls) + 1 - k]]

\* What a sorter gives for the list under one sort order: the comparator's
\* value for each two lines, and the orders the sort may leave.
OrderReturn(sorter, Outcome(_)) ==
  /\ pc = "compare"
  /\ pc' = "compared"
  /\ result' = [pending |-> FALSE, output |-> [o \in {"asc", "desc"} |-> Outcome(o)]]
  /\ stages' = Append(stages, sorter)
  /\ UNCHANGED <<lang, input, conv, cur, warnings, console, pass, prev>>

\* AdvancedSorter.parseLines and sortLines on the list, under each order
Order_sortLines ==
  /\ conv.sorter = "AdvancedSorter"
  /\ OrderReturn("sortLines", LAMBDA o :
       LET options == SortOptions(conv.sortType, o, conv.dataType, conv.customPattern,
                                  TRUE, FALSE)
           parsed == [k \in 1..Len(input) |-> ParseLine(input[k], options)]
       IN [comparison |-> [i \in 1..Len(input) |-> [j \in 1..Len(input) |->
                             Compare(parsed[i], parsed[j], options)]],
           sorted |-> {KeysOf(SortLines(parsed, options), LAMBDA l : l.original)}])

\* DataTypeSorter.sortByDataType: the orders the sorter of the dataType may
\* leave
SortByDataType(lines, options) ==
  CASE options.dataType = "number" -> {SortNumbers(lines, options)}
    [] options.dataType = "date" -> SortDates(lines, options)
    [] options.dataType = "version" -> {SortVersions(lines, options)}
    [] options.dataType = "ip" -> {SortIPAddresses(lines, options)}
    [] options.dataType = "url" -> {SortURLs(lines, options)}
    [] options.dataType = "email" -> {SortEmails(lines, options)}
    [] options.dataType = "uuid" -> {SortUUIDs(lines, options)}
    [] options.dataType = "hex" -> {SortHexValues(lines, options)}
    [] options.dataType = "time" -> {SortTimes(lines, options)}
    [] options.dataType = "filesize" -> {SortFileSizes(lines, options)}

\* DataTypeSorter.sortByDataType on the list, under each order
Order_sortByDataType ==
  /\ conv.sorter = "DataTypeSorter"
  /\ OrderReturn("sortByDataType", LAMBDA o :
       LET options == DataOptions(conv.dataType, o)
       IN [comparison |-> [i \in 1..Len(input) |-> [j \in 1..Len(input) |->
                             DataCompare(conv.dataType, input[i], input[j], options)]],
           sorted |-> SortByDataType(input, options)])

NextOrder ==
  \/ Order_sortLines
  \/ Order_sortByDataType

SpecOrder == InitOrder /\ [][NextOrder]_vars

\* The keys of the list are pairwise distinct: no two lines compare equal.
DistinctKeys ==
  \A i, j \in 1..Len(input) : i # j => result.output["asc"].comparison[i][j] # 0

\* C23: for every sort method of AdvancedSorter.sortLines and every dataType of
\* DataTypeSorter the comparator's value under 'desc' is the negation of its
\* value under 'asc', and when no two lines compare equal the descending
\* order is the reverse of the ascending order.
C23_OrderIsSignFlip ==
  (lang = "order" /\ pc = "compared") =>
    /\ \A i, j \in 1..Len(input) :
         result.output["desc"].comparison[i][j] = -result.output["asc"].comparison[i][j]
    /\ DistinctKeys =>
         result.output["desc"].sorted
           = {Reversed(sorted) : sorted \in result.output["asc"].sorted}

\* Three lines with distinct keys, sorted by date both ways
C23_ThreeDistinctDates ==
  /\ lang = "order" /\ pc = "compared"
  /\ conv.sortType = "date"
  /\ Len(input) = 3
  /\ DistinctKeys
  /\ result.output["asc"].sorted # result.output["desc"].sorted

\* The members of an array or an object
MembersOf(x) ==
  IF x.t = "arr" THEN x.v ELSE [i \in 1..Len(x.v) |-> x.v[i].v]

\* formatJson has just laid out, over several lines, an array or an object of
\* two or more members none of which is an array or an object: every line
\* between the first and the last holds one member.
MembersOnLines ==
  /\ lang = "json" /\ pc = "finalCleanup" /\ LastStage = "formatJson"
  /\ JsonParse(input).ok
  /\ IsContainer(JsonParse(input).v)
  /\ Len(MembersOf(JsonParse(input).v)) >= 2
  /\ \A i \in 1..Len(MembersOf(JsonParse(input).v)) :
       ~IsContainer(MembersOf(JsonParse(input).v)[i])
  /\ Len(SplitLines(cur)) = Len(MembersOf(JsonParse(input).v)) + 2

\* C24: in the multi-line layout of an array or object with n >= 2 members,
\* under either trailingComma value, each of the first n - 1 members is
\* followed by a comma, and the last one is exactly when trailingComma is true.
C24_CommaAfterEachMember ==
  MembersOnLines =>
    LET lines == SplitLines(cur)
        n == Len(lines) - 2
    IN /\ \A k \in 1..(n - 1) : EndsWith(lines[k + 1], <<",">>)
       /\ EndsWith(lines[n + 1], <<",">>) <=> conv.trailingComma

C26_LinesConserved ==
  (lang = "lines" /\ pc = "formatOutput" /\ LastStage = "sortLines") =>
    \A k \in 1..Len(prev) :
      (~prev[k].isEmptyLine \/ ~conv.removeEmptyLines) =>
        Occurrences(cur, prev[k]) = Occurrences(prev, prev[k])

\* C27: the text sortJavaScript, sortPython, sortCSS, sortSQL or sortMarkdown
\* returns holds the same lines as its input, each as many times, also when
\* the last line of the input is inside an open region.
C27_RegionLinesConserved ==
  (pc = "sorted" /\ lang \in {"javascript", "python", "css", "sql", "markdown"}) =>
    LET given == SplitLines(input)
        returned == SplitLines(result.output)
    IN \A x \in {given[k] : k \in 1..Len(given)}
                \cup {returned[k] : k \in 1..Len(returned)} :
         Occurrences(returned, x) = Occurrences(given, x)

\* The input is one import block that the end of the input closes.
OpenImportBlock ==
  /\ pc = "sorted" /\ lang \in {"javascript", "python"} /\ conv.sortImports
  /\ \A k \in 1..Len(SplitLines(input)) :
       IF lang = "javascript" THEN IsJsImport(Trim(SplitLines(input)[k]), conv)
       ELSE IsImportLine(SplitLines(input)[k])

\* The lines the sorter returns for the same block followed by the line x,
\* which is no import
ClosedBlockLines ==
  LET closed == IF lang = "javascript"
                THEN SortJavaScript(input \o <<NL, "x">>, conv).lines
                ELSE SortPython(input \o <<NL, "x">>, conv).lines
  IN [k \in 1..Len(closed) |-> closed[k].line]

\* C28: sortJavaScript and sortPython put the imports of a block in the same
\* order whether a line that is no import closes the block or the input ends
\* in it.
C28_BlockEndIrrelevant ==
  OpenImportBlock =>
    [k \in 1..Len(cur) |-> cur[k].line] = SubSeq(ClosedBlockLines, 1, Len(cur))

\* C29: with separateImportGroups, every import given to organizeImports of
\* the Java and Kotlin pipelines is in its result exactly as many times as it
\* was given, also an import whose path holds the prefix of more than one
\* group.
C29_ImportsPartitioned ==
  (lang \in {"java", "kotlin"} /\ LastStage = "organizeImports"
     /\ conv.separateImportGroups) =>
    LET given == SplitLines(NormalizeWhitespace(input, conv))
        returned == SplitLines(cur)
        Same(lines, x) == Cardinality({k \in 1..Len(lines) : Trim(lines[k]) = Trim(x)})
    IN \A k \in 1..Len(given) :
         StartsWith(Trim(given[k]), W_import \o <<SP>>) =>
           Same(returned, given[k]) = Same(given, given[k])

\* the closing delimiters of a text, in order
ClosingDelimiters(code) == SelectSeq(code, LAMBDA ch : ch \in {"}", "]", ")"})

\* C30: handleTrailingCommas of the JavaScript pipeline changes separators
\* only: the closing delimiters of its result are those of the text it was
\* given, in the same order.
C30_ClosingDelimitersKept ==
  [][(lang = "javascript" /\ pc = "handleTrailingCommas" /\ pc' = "finalCleanup") =>
       ClosingDelimiters(cur') = ClosingDelimiters(cur)]_vars

====
